---- MODULE Spec2Model ----
(***************************************************************************)
(* State-machine model of the oscillation core of the character vector     *)
(* database: VectorDatabaseManager's per-session oscillation buffers       *)
(* (core/database.py), the session manager behind it (session/manager.py)  *)
(* and the stand-alone OscillationBuffer class (oscillation/buffer.py).    *)
(*                                                                         *)
(* Floats are abstracted by provenance: a value is a token that says where *)
(* it came from (a caller-supplied value, a thermal draw, a blend).        *)
(* Timestamps are readings of an integer wall clock.                       *)
(***************************************************************************)
EXTENDS Integers, Sequences, FiniteSets, TLC

(* ------------------------------ bounds -------------------------------- *)
\* Number of session ids uuid4 can hand out in a run.
MaxSessions == 2
\* Last reading of the wall clock: every call that reads the clock advances
\* it, so this also bounds the calls of a run.
MaxClock == 3
\* The hard cap of _update_oscillation_history (max_size = 1000 at
\* core/database.py:356), scaled down so that the cap is reachable.
max_size == 7
\* Length of the history add_oscillation_pattern generates (range(20) at
\* core/database.py:667), scaled down.
EnhancedLen == 2

\* Octaves of the pink noise generator, so 2^octaves keys (octaves = 5 at
\* security/pink_noise.py:16), scaled down.
octaves == 2

\* Largest capacity an OscillationBuffer is constructed with in a run.
MaxCapacity == 3
\* Number of values appended to an OscillationBuffer between two clear()s.
MaxAppended == 4
\* Last reading of the clock the OscillationBuffer calls see.
MaxBufClock == 1
\* Clock readings per second: the statistics cache lives for less than
\* CACHE_SECONDS seconds, that is, fewer than CACHE_SECONDS * TicksPerSecond
\* readings.
TicksPerSecond == 1
\* Largest count asked of get_recent and largest target_size of resample.
MaxCount == 2
MaxTarget == 3

\* Cap of the pink-noise output history (100 at security/pink_noise.py:71),
\* scaled down.
HISTORY_CAP == 3
\* generate_secure_pink_noise calls between two resets, and the largest
\* length asked of get_history.
MaxGenerated == 4
MaxLength == 2

\* Tool invocations the server receives in a run.
MaxTasks == 2

\* Longest list handed to calculate_oscillation_metrics.
MaxSamples == 11

\* Bits in a byte (8), scaled down so that every value of a width fits.
BitsPerByte == 1
\* Largest digest_size hashlib.blake2b accepts (64 bytes), scaled down.
MAX_DIGEST_SIZE == 4
\* SecureEntropySource.buffer_size (1000 at security/entropy.py:28), scaled.
buffer_size == 4
\* The refill threshold of get_normalized_entropy (10 at
\* security/entropy.py:178), scaled with buffer_size.
REFILL_THRESHOLD == 3
\* The modulus of the normalization (1000000 at security/entropy.py:167),
\* scaled down.
NORM_MODULUS == 2
\* get_secure_entropy calls of a run, those of the prefills included.
MaxEntropyCalls == 8

(* ------------------------- program constants -------------------------- *)
\* get_secure_entropy(4) in _prefill_buffer and get_normalized_entropy
PREFILL_BYTES == 4
\* cache_age < 1.0 in get_statistics
CACHE_SECONDS == 1
\* calculate_autocorrelation's default max_lag (oscillation/metrics.py:87)
MAX_LAG == 10
\* config/settings.py:36
MIN_OSCILLATION_SAMPLES == 5
\* range(5) of _initialize_oscillation_buffer, and the 5 of the restore padding
SEED_COUNT == 5
\* limit=50 of the two store lookups of _restore_oscillation_buffer
RESTORE_LIMIT == 50

(* ------------------------------ values -------------------------------- *)
\* active_session_id / active_character_id = None
None == "None"
\* Session ids are 1..MaxSessions in the order uuid4 hands them out; 0 is an
\* id that was never handed out (a caller may pass any string).
UnknownSid == 0
NoSid == -1
\* no timestamp
NoTime == -1
Sids == 1..MaxSessions
Chars == {"c1"}
\* Caller-supplied oscillation values.
Vals == {"a", "nan"}
\* 0.0, what safe_metadata_value stores for a NaN or an Inf
ZERO == "zero"
\* entropy_source.get_thermal_oscillation(amplitude): a fresh thermal draw.
THERMAL == "thermal"
\* _ensure_oscillation_data: 0.7 * thermal + 0.3 * pink
SUPPLEMENT == "supplement"
\* _update_oscillation_history: 0.7 * pink + 0.3 * thermal
COMBINED == "combined"
\* add_oscillation_pattern: 0.6 * thermal + 0.4 * pink
ENHANCED == "enhanced"

(* ------------------------------ helpers ------------------------------- *)
Min(a, b) == IF a < b THEN a ELSE b

\* [x] * n
Rep(x, n) == [i \in 1..n |-> x]

\* seq[-n:] for n >= 1
LastN(seq, n) == IF Len(seq) <= n THEN seq ELSE SubSeq(seq, Len(seq) - n + 1, Len(seq))

\* collection.get(..., limit=n): the first n matching records
Limit(seq, n) == SubSeq(seq, 1, Min(Len(seq), n))

\* collection.get(where={"session_id": sid}): the matching records, in store order
RECURSIVE Where(_, _)
Where(recs, sid) ==
  IF recs = <<>> THEN <<>>
  ELSE IF Head(recs).session_id = sid
       THEN <<Head(recs)>> \o Where(Tail(recs), sid)
       ELSE Where(Tail(recs), sid)

\* number of occurrences of x in seq
Count(seq, x) == Cardinality({i \in 1..Len(seq) : seq[i] = x})

NonDecreasing(seq) == \A i \in 1..(Len(seq) - 1) : seq[i] <= seq[i + 1]

VARIABLES
  oscillation_buffer,   \* session id -> [values, timestamps]     (database.py:94)
  active_session_id,    \* database.py:91
  active_character_id,  \* database.py:90
  patterns,             \* collections[OSCILLATION_PATTERN], in insertion order
  conversations,        \* collections[CONVERSATION], in insertion order
  storage,              \* SessionStorage: the session files, id -> data
  session_cache,        \* SecureSessionManager.session_cache
  active_sessions,      \* keys of SecureSessionManager.active_sessions
  key,                  \* pink_noise_generator.key
  now,                  \* the wall clock datetime.now() reads
  next_sid,             \* how many session ids uuid4 has handed out
  last,                 \* the last call and what it returned
  roundtrip             \* the caller's export snapshot and how far its
                        \* export / clear / resume round trip has come

dbVars == <<oscillation_buffer, active_session_id, active_character_id,
            patterns,
            conversations, storage, session_cache, active_sessions, key, now,
            next_sid, last, roundtrip>>

\* One OscillationBuffer object (oscillation/buffer.py).
VARIABLES
  buf_max_size,         \* self.max_size, the maxlen of both deques
  buf_values,           \* self.values
  buf_timestamps,       \* self.timestamps
  buf_stats_cache,      \* self._stats_cache: <<>> is None, <<stats>> a dict
  buf_cache_timestamp,  \* self._cache_timestamp: NoTime is None
  buf_now,              \* datetime.now() as the buffer's calls read it
  buf_appended,         \* history: the values appended since construction
                        \* or the last clear(), oldest first
  buf_last              \* history: the last call and what it returned

bufVars == <<buf_max_size, buf_values, buf_timestamps, buf_stats_cache,
             buf_cache_timestamp, buf_now, buf_appended, buf_last>>

\* One SecureEntropySource object (security/entropy.py).
VARIABLES
  entropy_buffer,       \* self.entropy_buffer, the prefilled normalized values
  successful_calls,     \* quality_metrics["successful_calls"]
  failed_calls,         \* quality_metrics["failed_calls"]
  total_entropy_bits,   \* quality_metrics["total_entropy_bits"]
  ent_last              \* history: the last call and what it returned

entVars == <<entropy_buffer, successful_calls, failed_calls,
             total_entropy_bits, ent_last>>

\* One SecureEnhancedPinkNoiseGenerator object (security/pink_noise.py).
VARIABLES
  pn_key,               \* self.key
  pn_white_values,      \* self.white_values
  pn_pink_values,       \* self.pink_values
  pn_returned,          \* history: the values generate_secure_pink_noise
                        \* returned since construction or the last reset()
  pn_last               \* history: the last call and what it returned

pinkVars == <<pn_key, pn_white_values, pn_pink_values, pn_returned, pn_last>>

\* One call of calculate_oscillation_metrics (oscillation/metrics.py).
VARIABLES
  met_values,           \* the values argument
  met_entropy_source,   \* the entropy_source argument
  met_result            \* what the call returned, once it was made

metVars == <<met_values, met_entropy_source, met_result>>

\* The tool invocations of one server process (mcp/server.py,
\* mcp/handlers.py), each an asyncio task on the one event loop.
VARIABLES
  tool_pc,              \* task -> where the invocation stands
  tool_name,            \* task -> the name argument of call_tool
  tool_running,         \* the task the event loop is running, 0 for none
  tool_local,           \* task -> what its handler read from self.db
  tool_shared,          \* the state of self.db the handlers read and write
  tool_log              \* history: the reads and writes of self.db, in order

toolVars == <<tool_pc, tool_name, tool_running, tool_local, tool_shared, tool_log>>

vars == <<dbVars, bufVars, entVars, pinkVars, metVars, toolVars>>

(* ------------------------- the call record ---------------------------- *)
\* op: the public method called; sid: its session argument (or the active
\* session it acted on); ret: what it returned; fault: the store lookup that
\* raised during the call.
Call(op, sid, ret, fault) == [op |-> op, sid |-> sid, ret |-> ret, fault |-> fault]

\* The caller's round trip (tests/test_database.py:502-553): stage 1 after
\* export_session_data, 2 when the in-memory state was dropped right after,
\* 3 when the exported session was resumed right after that; 0 otherwise.
Trip(stage, sid, b) ==
  [stage |-> stage, sid |-> sid, values |-> b.values, timestamps |-> b.timestamps]

NoTrip == [stage |-> 0, sid |-> NoSid, values |-> <<>>, timestamps |-> <<>>]

(* ----------------------- defaultdict, datetime ------------------------ *)
EmptyEntry == [values |-> <<>>, timestamps |-> <<>>]

\* self.oscillation_buffer[sid] on the defaultdict: creates the entry
Touch(buf, sid) == IF sid \in DOMAIN buf THEN buf ELSE buf @@ (sid :> EmptyEntry)

\* datetime.now(): every call of the manager that reads the clock finds it
\* later than the call before did; the readings within one call are taken
\* as equal
Clock == {t \in {now + 1} : t <= MaxClock}

(* --------------------------- session manager -------------------------- *)
\* dict[k] = v
Put(f, k, v) == [x \in (DOMAIN f) \cup {k} |-> IF x = k THEN v ELSE f[x]]

\* SecureSessionManager.load_session finds the session: in the cache, else
\* in its session file
Loadable(sid) == sid \in DOMAIN session_cache \/ sid \in DOMAIN storage

\* SecureSessionManager.load_session: the data it returns when it finds one
load_session(sid) ==
  IF sid \in DOMAIN session_cache THEN session_cache[sid] ELSE storage[sid]

\* SessionState(...).to_dict(), the fields the core reads and last_update
SessionData(c, t) ==
  [character_id |-> c, interaction_count |-> 0, last_update |-> t]

\* SessionStorage.save: the file is replaced, or, when the write fails
\* (saved = FALSE), left as it was
save(sid, data, saved) == IF saved THEN Put(storage, sid, data) ELSE storage

\* SecureSessionManager.update_session on a session load_session finds.
\* load_session returns the dict the cache holds (and caches the dict it had
\* to read from the file, restoring the SessionState object as well), and
\* session_data.update(updates) and the last_update stamp change that dict
\* in place, so the cache holds the new data whether or not save_session
\* could write the file.
update_session(sid, data, t, saved) ==
  /\ storage' = save(sid, [data EXCEPT !.last_update = t], saved)
  /\ session_cache' = Put(session_cache, sid, [data EXCEPT !.last_update = t])
  /\ active_sessions' = IF sid \in DOMAIN session_cache THEN active_sessions
                        ELSE active_sessions \cup {sid}

(* ------------------- _initialize_oscillation_buffer ------------------- *)
\* Mutation: the seeding replaces the whole buffer table by the new entry.
InitializeAlone(buf, sid, t) ==
  [s \in {sid} |-> [values |-> Rep(THERMAL, SEED_COUNT),
                    timestamps |-> Rep(t, SEED_COUNT)]]

_initialize_oscillation_buffer(buf, sid, t) ==
  LET b == Touch(buf, sid)[sid]
  IN [Touch(buf, sid) EXCEPT ![sid] =
        [values |-> b.values \o Rep(THERMAL, SEED_COUNT),
         timestamps |-> b.timestamps \o Rep(t, SEED_COUNT)]]

(* -------------------- _restore_oscillation_buffer --------------------- *)
\* A stored value float() rejects, and a stored timestamp that
\* datetime.fromisoformat rejects (or a record without the key): both raise
\* inside the per-record try of the restore.  The manager itself never
\* writes either of them.
GARBAGE == "garbage"
BadTimestamp == NoTime - 1

\* database.py:227-232: the inner loop over one record's history.  The value
\* is appended before the record's timestamp is parsed, and the exception
\* ends the loop over this record.
RECURSIVE RestoreHistory(_, _, _)
RestoreHistory(b, history, ts) ==
  IF history = <<>> THEN b
  ELSE IF Head(history) = GARBAGE THEN b
  ELSE IF ts = BadTimestamp
       THEN [values |-> Append(b.values, Head(history)), timestamps |-> b.timestamps]
  ELSE RestoreHistory([values |-> Append(b.values, Head(history)),
                       timestamps |-> Append(b.timestamps, ts)],
                      Tail(history), ts)

\* database.py:222-235: every history value of every pattern record, each
\* with the record's timestamp
RECURSIVE RestorePatterns(_, _)
RestorePatterns(b, recs) ==
  IF recs = <<>> THEN b
  ELSE RestorePatterns(RestoreHistory(b, Head(recs).history, Head(recs).timestamp),
                       Tail(recs))

\* Mutation: a truthiness test on the stored value skips a stored 0.0.
RECURSIVE RestoreConversationsTruthy(_, _)
RestoreConversationsTruthy(b, recs) ==
  IF recs = <<>> THEN b
  ELSE LET r == Head(recs)
       IN RestoreConversationsTruthy(
            IF r.oscillation_value = ZERO THEN b
            ELSE [values |-> Append(b.values, r.oscillation_value),
                  timestamps |-> Append(b.timestamps, r.timestamp)],
            Tail(recs))

\* database.py:244-254: the oscillation_value of every conversation record.
\* float() of the value comes first, then the append of the value, then the
\* parse of the timestamp.
RECURSIVE RestoreConversations(_, _)
RestoreConversations(b, recs) ==
  IF recs = <<>> THEN b
  ELSE LET r == Head(recs)
       IN RestoreConversations(
            IF r.oscillation_value = GARBAGE THEN b
            ELSE IF r.timestamp = BadTimestamp
                 THEN [values |-> Append(b.values, r.oscillation_value),
                       timestamps |-> b.timestamps]
            ELSE [values |-> Append(b.values, r.oscillation_value),
                  timestamps |-> Append(b.timestamps, r.timestamp)],
            Tail(recs))

\* database.py:257-265: pad with thermal draws up to 5
Pad(b, t) ==
  IF Len(b.values) < SEED_COUNT
  THEN [values |-> b.values \o Rep(THERMAL, SEED_COUNT - Len(b.values)),
        timestamps |-> b.timestamps \o Rep(t, SEED_COUNT - Len(b.values))]
  ELSE b

\* list.sort(key=lambda x: x[0]) on (timestamp, value) pairs: stable
RECURSIVE InsertByTs(_, _)
InsertByTs(sorted, p) ==
  IF sorted = <<>> THEN <<p>>
  ELSE IF sorted[Len(sorted)][1] <= p[1] THEN Append(sorted, p)
       ELSE Append(InsertByTs(SubSeq(sorted, 1, Len(sorted) - 1), p), sorted[Len(sorted)])

RECURSIVE SortByTs(_)
SortByTs(pairs) ==
  IF pairs = <<>> THEN <<>>
  ELSE InsertByTs(SortByTs(SubSeq(pairs, 1, Len(pairs) - 1)), pairs[Len(pairs)])

\* database.py:268-273: sort by timestamp, only when the two lists pair up
SortBuffer(b) ==
  IF Len(b.values) = Len(b.timestamps)
  THEN LET combined == SortByTs([i \in 1..Len(b.values) |-> <<b.timestamps[i], b.values[i]>>])
       IN [values |-> [i \in 1..Len(combined) |-> combined[i][2]],
           timestamps |-> [i \in 1..Len(combined) |-> combined[i][1]]]
  ELSE b

\* Mutation: the except branch logs the failure and synthesizes nothing.
RestoreWithoutFallback(buf, sid, fault, t) ==
  IF fault = "patterns" THEN Touch(buf, sid)
  ELSE LET b0 == Touch(buf, sid)[sid]
           b1 == RestorePatterns(b0, Limit(Where(patterns, sid), RESTORE_LIMIT))
       IN IF fault = "conversations"
          THEN [Touch(buf, sid) EXCEPT ![sid] = b1]
          ELSE LET b2 == RestoreConversations(b1, Limit(Where(conversations, sid), RESTORE_LIMIT))
               IN [Touch(buf, sid) EXCEPT ![sid] = SortBuffer(Pad(b2, t))]

\* fault: the store lookup that raises, "patterns" (database.py:213),
\* "conversations" (database.py:238) or "none"
_restore_oscillation_buffer(buf, sid, fault, t) ==
  IF fault = "patterns"
  THEN \* raised before self.oscillation_buffer[session_id] was evaluated
       _initialize_oscillation_buffer(buf, sid, t)
  ELSE LET b0 == Touch(buf, sid)[sid]
           b1 == RestorePatterns(b0, Limit(Where(patterns, sid), RESTORE_LIMIT))
       IN IF fault = "conversations"
          THEN _initialize_oscillation_buffer([Touch(buf, sid) EXCEPT ![sid] = b1], sid, t)
          ELSE LET b2 == RestoreConversations(b1, Limit(Where(conversations, sid), RESTORE_LIMIT))
               IN [Touch(buf, sid) EXCEPT ![sid] = SortBuffer(Pad(b2, t))]

(* ---------------------- pink noise generator key ---------------------- *)
max_key == (2 ^ octaves) - 1

\* generate_secure_pink_noise, the key: pink_noise.py:40-44
NextKey(k) == IF k + 1 > max_key THEN 0 ELSE k + 1

RECURSIVE KeyAfter(_, _)
KeyAfter(k, n) == IF n = 0 THEN k ELSE KeyAfter(NextKey(k), n - 1)

(* ---------------------- _ensure_oscillation_data ---------------------- *)
Shortage(buf, sid, m) ==
  LET n == Len(Touch(buf, sid)[sid].values)
  IN IF n < m THEN m - n ELSE 0

\* Mutation: the top-up appends min_samples values instead of the shortage.
EnsureByMinSamples(buf, sid, m, t) ==
  LET b == Touch(buf, sid)[sid]
      n == IF Shortage(buf, sid, m) > 0 THEN m ELSE 0
  IN [Touch(buf, sid) EXCEPT ![sid] =
        [values |-> b.values \o Rep(SUPPLEMENT, n),
         timestamps |-> b.timestamps \o Rep(t, n)]]

_ensure_oscillation_data(buf, sid, m, t) ==
  LET b == Touch(buf, sid)[sid]
      shortage == Shortage(buf, sid, m)
  IN [Touch(buf, sid) EXCEPT ![sid] =
        [values |-> b.values \o Rep(SUPPLEMENT, shortage),
         timestamps |-> b.timestamps \o Rep(t, shortage)]]

\* each supplementary value takes one generate_secure_pink_noise call
EnsureKey(buf, sid, m, k) == KeyAfter(k, Shortage(buf, sid, m))

(* -------------------- _update_oscillation_history -------------------- *)
\* Mutation: a non-empty history wins over the entropy flag.
PatternAppendHistoryFirst(b, p) ==
  [values |-> IF p.history # <<>> THEN b.values \o p.history
              ELSE IF p.secure_entropy_enabled THEN Append(b.values, COMBINED)
              ELSE Append(b.values, THERMAL),
   timestamps |-> Append(b.timestamps, p.timestamp)]

\* database.py:339-353: what the event appends, before the cap
PatternAppend(b, p) ==
  [values |-> IF p.secure_entropy_enabled THEN Append(b.values, COMBINED)
              ELSE IF p.history # <<>> THEN b.values \o p.history
              ELSE Append(b.values, THERMAL),
   timestamps |-> Append(b.timestamps, p.timestamp)]

\* database.py:356-359
Cap(b) ==
  IF Len(b.values) > max_size
  THEN [values |-> LastN(b.values, max_size), timestamps |-> LastN(b.timestamps, max_size)]
  ELSE b

\* Mutation: the buffer is looked up before the active session is tested.
UpdateHistoryUnguarded(buf, p) ==
  [Touch(buf, active_session_id) EXCEPT ![active_session_id] =
     Cap(PatternAppend(Touch(buf, active_session_id)[active_session_id], p))]

_update_oscillation_history(buf, p) ==
  IF active_session_id # NoSid
  THEN [Touch(buf, active_session_id) EXCEPT ![active_session_id] =
          Cap(PatternAppend(Touch(buf, active_session_id)[active_session_id], p))]
  ELSE buf

PatternKey(p, k) ==
  IF active_session_id # NoSid /\ p.secure_entropy_enabled THEN NextKey(k) ELSE k

Pattern(flag, history, t) ==
  [secure_entropy_enabled |-> flag, history |-> history, timestamp |-> t]

(* ------------------------------- Init --------------------------------- *)
DbInit ==
  /\ oscillation_buffer = <<>>
  /\ active_session_id = NoSid
  /\ active_character_id = None
  /\ patterns = <<>>
  /\ conversations = <<>>
  /\ storage = <<>>
  /\ session_cache = <<>>
  /\ active_sessions = {}
  /\ key = 0
  /\ now = 0
  /\ next_sid = 0
  /\ last = Call("init", NoSid, None, "none")
  /\ roundtrip = NoTrip

(* ---------------------------- start_session --------------------------- *)
\* create_session does not look at what storage.save returns
StartSession(c, saved) ==
  /\ next_sid < MaxSessions
  /\ \E t \in Clock :
       LET sid == next_sid + 1
       IN /\ next_sid' = sid
          /\ now' = t
          /\ active_sessions' = active_sessions \cup {sid}
          /\ storage' = save(sid, SessionData(c, t), saved)
          /\ session_cache' = Put(session_cache, sid, SessionData(c, t))
          /\ active_session_id' = sid
          /\ active_character_id' = c
          /\ oscillation_buffer' = _initialize_oscillation_buffer(oscillation_buffer, sid, t)
          /\ last' = Call("start_session", sid, "id", "none")
  /\ roundtrip' = NoTrip
  /\ UNCHANGED <<patterns, conversations, key>>
  /\ UNCHANGED <<bufVars, entVars, pinkVars, metVars, toolVars>>

(* --------------------------- resume_session --------------------------- *)
Faults == {"none", "patterns", "conversations"}

\* Mutation: the session is made the active one before the result of
\* load_session is tested.
ResumeSessionActivating(sid, fault, saved) ==
  /\ IF Loadable(sid)
     THEN \E t \in Clock :
            /\ now' = t
            /\ active_session_id' = sid
            /\ active_character_id' = load_session(sid).character_id
            /\ update_session(sid, load_session(sid), t, saved)
            /\ oscillation_buffer' = _restore_oscillation_buffer(oscillation_buffer, sid, fault, t)
            /\ last' = Call("resume_session", sid, "True", fault)
            /\ roundtrip' = IF roundtrip.stage = 2 /\ roundtrip.sid = sid
                             THEN [roundtrip EXCEPT !.stage = 3] ELSE NoTrip
            /\ UNCHANGED <<patterns, conversations, key, next_sid>>
     ELSE /\ fault = "none"
          /\ saved
          /\ active_session_id' = sid
          /\ last' = Call("resume_session", sid, "False", "none")
          /\ roundtrip' = NoTrip
          /\ UNCHANGED <<oscillation_buffer, active_character_id,
                         patterns, conversations, storage, session_cache,
                         active_sessions, key, now, next_sid>>
  /\ UNCHANGED <<bufVars, entVars, pinkVars, metVars, toolVars>>

ResumeSession(sid, fault, saved) ==
  /\ IF Loadable(sid)
     THEN \E t \in Clock :
            /\ now' = t
            /\ active_session_id' = sid
            /\ active_character_id' = load_session(sid).character_id
            /\ update_session(sid, load_session(sid), t, saved)
            /\ oscillation_buffer' = _restore_oscillation_buffer(oscillation_buffer, sid, fault, t)
            /\ last' = Call("resume_session", sid, "True", fault)
            /\ roundtrip' = IF roundtrip.stage = 2 /\ roundtrip.sid = sid
                             THEN [roundtrip EXCEPT !.stage = 3] ELSE NoTrip
            /\ UNCHANGED <<patterns, conversations, key, next_sid>>
     ELSE /\ fault = "none"
          /\ saved
          /\ last' = Call("resume_session", sid, "False", "none")
          /\ roundtrip' = NoTrip
          /\ UNCHANGED <<oscillation_buffer, active_session_id, active_character_id,
                         patterns, conversations, storage, session_cache,
                         active_sessions, key, now, next_sid>>
  /\ UNCHANGED <<bufVars, entVars, pinkVars, metVars, toolVars>>

(* --------------------------- add_conversation ------------------------- *)
\* safe_metadata_value on a float: utils.py:270-274
safe_metadata_value(v) == IF v = "nan" THEN ZERO ELSE v

\* v = None: no oscillation_value was passed
AddConversation(v, saved) ==
  /\ \E t \in Clock :
       LET oscillation_value == IF v = None THEN THERMAL ELSE v
           sid == active_session_id
       IN /\ now' = t
          /\ conversations' = Append(conversations,
               [session_id |-> sid,
                oscillation_value |-> safe_metadata_value(oscillation_value),
                timestamp |-> t])
          /\ oscillation_buffer' =
               IF sid # NoSid
               THEN LET b == Touch(oscillation_buffer, sid)[sid]
                    IN [Touch(oscillation_buffer, sid) EXCEPT ![sid] =
                          [values |-> Append(b.values, oscillation_value),
                           timestamps |-> Append(b.timestamps, t)]]
               ELSE oscillation_buffer
          /\ IF sid # NoSid /\ Loadable(sid)
             THEN update_session(sid, [load_session(sid) EXCEPT
                    !.interaction_count = @ + 1], t, saved)
             ELSE saved /\ UNCHANGED <<storage, session_cache, active_sessions>>
          /\ last' = Call("add_conversation", sid, "id", "none")
  /\ roundtrip' = NoTrip
  /\ UNCHANGED <<active_session_id, active_character_id, patterns, key, next_sid>>
  /\ UNCHANGED <<bufVars, entVars, pinkVars, metVars, toolVars>>

(* ------------------------ add_oscillation_pattern --------------------- *)
\* pattern_data.get("history", []) of the caller's dict
Histories == {<<>>, <<"a">>, <<"a", "a">>}

AddOscillationPattern(flag, history) ==
  /\ \E t \in Clock :
       LET h == IF flag THEN Rep(ENHANCED, EnhancedLen) ELSE history
           k == IF flag THEN KeyAfter(key, EnhancedLen) ELSE key
           p == Pattern(flag, h, t)
       IN /\ now' = t
          /\ patterns' = Append(patterns,
               [session_id |-> active_session_id, history |-> h, timestamp |-> t])
          /\ oscillation_buffer' = _update_oscillation_history(oscillation_buffer, p)
          /\ key' = PatternKey(p, k)
          /\ last' = Call("add_oscillation_pattern", active_session_id, "id", "none")
  /\ roundtrip' = NoTrip
  /\ UNCHANGED <<active_session_id, active_character_id,
                 conversations, storage, session_cache, active_sessions, next_sid>>
  /\ UNCHANGED <<bufVars, entVars, pinkVars, metVars, toolVars>>

(* ------------------------ add_relationship_state ---------------------- *)
\* The pattern is the default one or built from a dict (its timestamp is then
\* the time of the call), or an OscillationPatternData the caller built
\* earlier (tp = 0, before every call of this run).  A pattern with the
\* entropy flag and no history is given 10 thermal draws as its history; the
\* RELATIONSHIP record it is stored in is never read back by the core.
AddRelationshipState(flag, history, tp, saved) ==
  /\ \E t \in Clock :
       LET p == Pattern(flag, IF flag /\ history = <<>> THEN Rep(THERMAL, 10) ELSE history,
                        IF tp = NoTime THEN t ELSE tp)
           sid == active_session_id
       IN /\ now' = t
          /\ tp <= t
          /\ IF sid # NoSid /\ Loadable(sid)
             THEN update_session(sid, load_session(sid), t, saved)
             ELSE saved /\ UNCHANGED <<storage, session_cache, active_sessions>>
          /\ oscillation_buffer' = _update_oscillation_history(oscillation_buffer, p)
          /\ key' = PatternKey(p, key)
          /\ last' = Call("add_relationship_state", sid, "id", "none")
  /\ roundtrip' = NoTrip
  /\ UNCHANGED <<active_session_id, active_character_id, patterns, conversations,
                 next_sid>>
  /\ UNCHANGED <<bufVars, entVars, pinkVars, metVars, toolVars>>

(* -------------------- calculate_oscillation_metrics ------------------- *)
\* Mutation: a list of three samples is still insufficient.
DataLevelInclusive(n) ==
  IF n <= 3 THEN "insufficient"
  ELSE IF n < 5 THEN "basic"
  ELSE IF n < 10 THEN "intermediate"
  ELSE "full"

\* oscillation/metrics.py:334-341: the tier by sample count
data_level(n) ==
  IF n < 3 THEN "insufficient"
  ELSE IF n < 5 THEN "basic"
  ELSE IF n < 10 THEN "intermediate"
  ELSE "full"

\* arg = NoSid: no session_id was passed
CalculateOscillationMetrics(arg) ==
  /\ LET sid == IF arg # NoSid THEN arg ELSE active_session_id
     IN IF sid = NoSid
        THEN /\ last' = Call("calculate_oscillation_metrics", sid, "No active session", "none")
             /\ roundtrip' = NoTrip
             /\ UNCHANGED <<oscillation_buffer, active_session_id, active_character_id,
                            patterns, conversations, storage, session_cache,
                            active_sessions, key, now, next_sid>>
        ELSE \E t \in Clock :
               /\ now' = t
               /\ oscillation_buffer' =
                    _ensure_oscillation_data(oscillation_buffer, sid, MIN_OSCILLATION_SAMPLES, t)
               /\ key' = EnsureKey(oscillation_buffer, sid, MIN_OSCILLATION_SAMPLES, key)
               /\ last' = Call("calculate_oscillation_metrics", sid,
                               IF sid \notin DOMAIN oscillation_buffer'
                               THEN "No oscillation data"
                               ELSE data_level(Len(oscillation_buffer'[sid].values)),
                               "none")
               /\ roundtrip' = NoTrip
               /\ UNCHANGED <<active_session_id, active_character_id,
                              patterns, conversations, storage, session_cache,
                              active_sessions, next_sid>>
  /\ UNCHANGED <<bufVars, entVars, pinkVars, metVars, toolVars>>

(* -------------------------- export_session_data ----------------------- *)
ExportSessionData(arg) ==
  /\ LET sid == IF arg # NoSid THEN arg ELSE active_session_id
     IN /\ IF sid = NoSid
           THEN /\ last' = Call("export_session_data", sid, "No session specified", "none")
                /\ roundtrip' = NoTrip
           ELSE /\ last' = Call("export_session_data", sid, "export", "none")
                /\ roundtrip' = Trip(1, sid,
                     IF sid \in DOMAIN oscillation_buffer
                     THEN oscillation_buffer[sid] ELSE EmptyEntry)
        /\ UNCHANGED <<oscillation_buffer, active_session_id, active_character_id,
                       patterns, conversations, storage, session_cache,
                       active_sessions, key, now, next_sid>>
  /\ UNCHANGED <<bufVars, entVars, pinkVars, metVars, toolVars>>

(* ----------------------------- reset_database ------------------------- *)
ResetDatabase ==
  /\ patterns' = <<>>
  /\ conversations' = <<>>
  /\ oscillation_buffer' = <<>>
  /\ active_sessions' = {}
  /\ session_cache' = <<>>
  /\ last' = Call("reset_database", NoSid, None, "none")
  /\ roundtrip' = NoTrip
  /\ UNCHANGED <<active_session_id, active_character_id, storage, key, now, next_sid>>
  /\ UNCHANGED <<bufVars, entVars, pinkVars, metVars, toolVars>>

(* ------------------------------- __init__ ----------------------------- *)
\* A new VectorDatabaseManager over the same database path and session
\* directory: the in-memory state starts afresh, the collections and the
\* session files are as the previous instance left them.
Restart ==
  /\ oscillation_buffer' = <<>>
  /\ active_session_id' = NoSid
  /\ active_character_id' = None
  /\ session_cache' = <<>>
  /\ active_sessions' = {}
  /\ key' = 0
  /\ last' = Call("init", NoSid, None, "none")
  /\ roundtrip' = IF roundtrip.stage = 1 THEN [roundtrip EXCEPT !.stage = 2] ELSE NoTrip
  /\ UNCHANGED <<patterns, conversations, storage, now, next_sid>>
  /\ UNCHANGED <<bufVars, entVars, pinkVars, metVars, toolVars>>

DbNext ==
  \/ \E c \in Chars, saved \in BOOLEAN : StartSession(c, saved)
  \/ \E sid \in (1..next_sid) \cup {UnknownSid}, fault \in Faults, saved \in BOOLEAN :
       ResumeSession(sid, fault, saved)
  \/ \E v \in Vals \cup {None}, saved \in BOOLEAN : AddConversation(v, saved)
  \/ \E flag \in BOOLEAN, history \in Histories : AddOscillationPattern(flag, history)
  \/ \E flag \in BOOLEAN, history \in Histories, tp \in {NoTime, 0}, saved \in BOOLEAN :
       AddRelationshipState(flag, history, tp, saved)
  \/ \E arg \in (1..next_sid) \cup {UnknownSid, NoSid} : CalculateOscillationMetrics(arg)
  \/ \E arg \in (1..next_sid) \cup {NoSid} : ExportSessionData(arg)
  \/ ResetDatabase
  \/ Restart

(* ------------------- a store written by other hands ------------------- *)
\* The collections hold what any writer of the ChromaDB store left in them.
\* The timestamps of the records lie before the first clock reading of the
\* manager that restores them.
StoredValues == {"a", ZERO, GARBAGE}
StoredTimes == {1, 2, BadTimestamp}
StoredHistories == {<<"a", ZERO>>, <<"a", GARBAGE>>}

StoredPatterns ==
  {[session_id |-> 1, history |-> h, timestamp |-> t] :
     h \in StoredHistories, t \in {1, BadTimestamp}}

StoredConversations ==
  {[session_id |-> 1, oscillation_value |-> v, timestamp |-> t] :
     v \in StoredValues, t \in StoredTimes}

\* A new VectorDatabaseManager over a store that holds one session file and
\* up to one pattern record and two conversation records of that session.
RestoreInit ==
  /\ oscillation_buffer = <<>>
  /\ active_session_id = NoSid
  /\ active_character_id = None
  /\ patterns \in {<<>>} \cup {<<p>> : p \in StoredPatterns}
  /\ conversations \in {<<>>} \cup {<<c>> : c \in StoredConversations}
                         \cup {<<c, d>> : c \in StoredConversations, d \in StoredConversations}
  /\ storage = (1 :> SessionData("c1", 2))
  /\ session_cache = <<>>
  /\ active_sessions = {}
  /\ key = 0
  /\ now = 2
  /\ next_sid = 1
  /\ last = Call("init", NoSid, None, "none")
  /\ roundtrip = NoTrip

RestoreNext ==
  \E sid \in (1..next_sid) \cup {UnknownSid}, fault \in Faults, saved \in BOOLEAN :
    ResumeSession(sid, fault, saved)

(* ========================= OscillationBuffer ========================== *)
\* Values and timestamps a caller hands to the buffer.
BufVals == {1, 2}
BufTimes == {0, 1}
BufValueLists == {<<>>} \cup {<<v>> : v \in BufVals}
                   \cup {<<v, w>> : v \in BufVals, w \in BufVals}
BufTimeLists == {<<>>} \cup {<<t>> : t \in BufTimes}
                  \cup {<<t, u>> : t \in BufTimes, u \in BufTimes}

\* The last call on the buffer: its arguments (for add_multiple the lengths of
\* the two lists), the list it returned, the dict get_statistics returned, and
\* whether it raised.
BufCall(op, stats, raised) ==
  [op |-> op, arg |-> <<>>, ret |-> <<>>, stats |-> stats, raised |-> raised]
BufQuery(op, arg, ret) ==
  [op |-> op, arg |-> arg, ret |-> ret, stats |-> <<>>, raised |-> FALSE]

\* Mutation: a full deque refuses the new element instead of evicting.
DequeAppendDropNewest(d, x, maxlen) ==
  IF Len(d) >= maxlen THEN d ELSE Append(d, x)

\* deque(maxlen=n).append(x): the oldest element leaves when the deque is full.
DequeAppend(d, x, maxlen) ==
  LET e == Append(d, x)
  IN IF Len(e) > maxlen THEN Tail(e) ELSE e

RECURSIVE DequeExtend(_, _, _)
DequeExtend(d, xs, maxlen) ==
  IF xs = <<>> THEN d
  ELSE DequeExtend(DequeAppend(d, Head(xs), maxlen), Tail(xs), maxlen)

\* __init__(max_size)
OscillationBuffer(c) ==
  /\ buf_max_size = c
  /\ buf_values = <<>>
  /\ buf_timestamps = <<>>
  /\ buf_stats_cache = <<>>
  /\ buf_cache_timestamp = NoTime
  /\ buf_now = 0
  /\ buf_appended = <<>>
  /\ buf_last = BufCall("__init__", <<>>, FALSE)

\* Mutation: a mutator leaves the cached statistics in place.
KeepCache == UNCHANGED <<buf_stats_cache, buf_cache_timestamp>>

_invalidate_cache ==
  /\ buf_stats_cache' = <<>>
  /\ buf_cache_timestamp' = NoTime

\* add(value, timestamp): timestamp NoTime is the default None.
BufAdd(value, timestamp) ==
  /\ Len(buf_appended) + 1 <= MaxAppended
  /\ LET ts == IF timestamp = NoTime THEN buf_now ELSE timestamp
     IN /\ buf_values' = DequeAppend(buf_values, value, buf_max_size)
        /\ buf_timestamps' = DequeAppend(buf_timestamps, ts, buf_max_size)
  /\ _invalidate_cache
  /\ buf_appended' = Append(buf_appended, value)
  /\ buf_last' = BufCall("add", <<>>, FALSE)
  /\ UNCHANGED <<buf_max_size, buf_now>>
  /\ UNCHANGED <<dbVars, entVars, pinkVars, metVars, toolVars>>

\* Mutation: only a timestamps list that is too short is rejected.
LengthMismatchShorter(values, given, timestamps) ==
  given /\ Len(timestamps) < Len(values)

\* The length check of add_multiple: it applies to a timestamps list that was
\* passed, not to the default None.
LengthMismatch(values, given, timestamps) ==
  given /\ Len(timestamps) # Len(values)

\* add_multiple(values, timestamps): given selects a timestamps list over the
\* default None.
BufAddMultiple(values, given, timestamps) ==
  /\ Len(buf_appended) + Len(values) <= MaxAppended
  /\ IF LengthMismatch(values, given, timestamps)
     THEN /\ buf_last' = [BufCall("add_multiple", <<>>, TRUE)
                            EXCEPT !.arg = <<Len(values), Len(timestamps)>>]
          /\ UNCHANGED <<buf_max_size, buf_values, buf_timestamps,
                         buf_stats_cache, buf_cache_timestamp, buf_now,
                         buf_appended>>
     ELSE LET tss == IF given THEN timestamps
                     ELSE [i \in 1..Len(values) |-> buf_now]
          IN /\ buf_values' = DequeExtend(buf_values, values, buf_max_size)
             /\ buf_timestamps' = DequeExtend(buf_timestamps, tss, buf_max_size)
             /\ _invalidate_cache
             /\ buf_appended' = buf_appended \o values
             /\ buf_last' = [BufCall("add_multiple", <<>>, FALSE)
                               EXCEPT !.arg = <<Len(values), Len(tss)>>]
             /\ UNCHANGED <<buf_max_size, buf_now>>
  /\ UNCHANGED <<dbVars, entVars, pinkVars, metVars, toolVars>>

size == Len(buf_values)
is_empty == Len(buf_values) = 0

BufClear ==
  /\ buf_values' = <<>>
  /\ buf_timestamps' = <<>>
  /\ _invalidate_cache
  /\ buf_appended' = <<>>
  /\ buf_last' = BufCall("clear", <<>>, FALSE)
  /\ UNCHANGED <<buf_max_size, buf_now>>
  /\ UNCHANGED <<dbVars, entVars, pinkVars, metVars, toolVars>>

RECURSIVE SeqSum(_)
SeqSum(seq) == IF seq = <<>> THEN 0 ELSE Head(seq) + SeqSum(Tail(seq))
SeqMin(seq) == CHOOSE x \in {seq[i] : i \in DOMAIN seq} :
                 \A i \in DOMAIN seq : x <= seq[i]
SeqMax(seq) == CHOOSE x \in {seq[i] : i \in DOMAIN seq} :
                 \A i \in DOMAIN seq : x >= seq[i]

\* The dict get_statistics computes from the values (the mean is carried as
\* the sum over the count).
Statistics(values) ==
  IF values = <<>>
  THEN [count |-> 0, total |-> 0, min |-> 0, max |-> 0]
  ELSE [count |-> Len(values), total |-> SeqSum(values),
        min |-> SeqMin(values), max |-> SeqMax(values)]

BufGetStatistics ==
  /\ IF /\ buf_stats_cache # <<>>
        /\ buf_cache_timestamp # NoTime
        /\ buf_now - buf_cache_timestamp < CACHE_SECONDS * TicksPerSecond
     THEN /\ buf_last' = BufCall("get_statistics", buf_stats_cache, FALSE)
          /\ UNCHANGED <<buf_max_size, buf_values, buf_timestamps,
                         buf_stats_cache, buf_cache_timestamp, buf_now,
                         buf_appended>>
     ELSE IF is_empty
     THEN /\ buf_last' = BufCall("get_statistics", <<Statistics(<<>>)>>, FALSE)
          /\ UNCHANGED <<buf_max_size, buf_values, buf_timestamps,
                         buf_stats_cache, buf_cache_timestamp, buf_now,
                         buf_appended>>
     ELSE /\ buf_stats_cache' = <<Statistics(buf_values)>>
          /\ buf_cache_timestamp' = buf_now
          /\ buf_last' = BufCall("get_statistics", <<Statistics(buf_values)>>, FALSE)
          /\ UNCHANGED <<buf_max_size, buf_values, buf_timestamps, buf_now,
                         buf_appended>>
  /\ UNCHANGED <<dbVars, entVars, pinkVars, metVars, toolVars>>

\* A query leaves the buffer as it is.
BufUnchanged ==
  UNCHANGED <<buf_max_size, buf_values, buf_timestamps, buf_stats_cache,
              buf_cache_timestamp, buf_now, buf_appended>>

get_values == buf_values

\* lst[start:] of a Python list: a negative start counts from the end, and
\* both ends are clamped to the list.
SliceFrom(lst, start) ==
  LET n == Len(lst)
      from == IF start < 0
              THEN (IF n + start < 0 THEN 0 ELSE n + start)
              ELSE (IF start > n THEN n ELSE start)
  IN SubSeq(lst, from + 1, n)

\* get_recent(count)
get_recent(count) ==
  IF count >= Len(buf_values) THEN get_values
  ELSE SliceFrom(buf_values, 0 - count)

BufGetRecent(count) ==
  /\ buf_last' = BufQuery("get_recent", <<count>>, get_recent(count))
  /\ BufUnchanged
  /\ UNCHANGED <<dbVars, entVars, pinkVars, metVars, toolVars>>

\* A float that is not one of the stored values: num / den.
Ratio(num, den) == [num |-> num, den |-> den]

\* np.linspace(0, current_size - 1, target_size), as numerators over the
\* common denominator LinspaceDen.
LinspaceDen(target_size) == IF target_size = 1 THEN 1 ELSE target_size - 1
Linspace(current_size, target_size) ==
  [i \in 1..target_size |-> (i - 1) * (current_size - 1)]

\* np.interp(x, range(n), fp) at x = xnum / den, 0 <= x <= n - 1.
Interp(xnum, den, fp) ==
  LET q == xnum \div den
      r == xnum % den
  IN IF r = 0 THEN Ratio(fp[q + 1] * den, den)
     ELSE Ratio(fp[q + 1] * den + r * (fp[q + 2] - fp[q + 1]), den)

\* Mutation: the first values of the buffer instead of an interpolation.
ResampleTruncating(target_size) ==
  [i \in 1..(IF target_size < size THEN target_size ELSE size)
     |-> Ratio(buf_values[i], 1)]

\* resample(target_size)
resample(target_size) ==
  IF is_empty THEN <<>>
  ELSE IF size = target_size
  THEN [i \in 1..size |-> Ratio(get_values[i], 1)]
  ELSE LET indices == Linspace(size, target_size)
       IN [i \in 1..target_size
             |-> Interp(indices[i], LinspaceDen(target_size), buf_values)]

BufResample(target_size) ==
  /\ buf_last' = BufQuery("resample", <<target_size>>, resample(target_size))
  /\ BufUnchanged
  /\ UNCHANGED <<dbVars, entVars, pinkVars, metVars, toolVars>>

\* Mutation: the quotient is taken for every pair.
DerivativeUnguarded ==
  IF size < 2 THEN <<>>
  ELSE [i \in 1..(size - 1)
          |-> Ratio((buf_values[i + 1] - buf_values[i]) * TicksPerSecond,
                    buf_timestamps[i + 1] - buf_timestamps[i])]

\* get_derivative(): time_delta is in seconds, so a difference over
\* time_delta is the difference times TicksPerSecond over the ticks.
get_derivative ==
  IF size < 2 THEN <<>>
  ELSE [i \in 1..(size - 1)
          |-> LET time_delta == buf_timestamps[i + 1] - buf_timestamps[i]
              IN IF time_delta > 0
                 THEN Ratio((buf_values[i + 1] - buf_values[i]) * TicksPerSecond,
                            time_delta)
                 ELSE Ratio(0, 1)]

BufGetDerivative ==
  /\ buf_last' = BufQuery("get_derivative", <<>>, get_derivative)
  /\ BufUnchanged
  /\ UNCHANGED <<dbVars, entVars, pinkVars, metVars, toolVars>>

\* datetime.isoformat() writes the timestamp to its microsecond as a string.
isoformat(ts) == [iso |-> ts]

\* datetime.fromisoformat(str)
fromisoformat(str) == str.iso

\* What get_statistics returns in the current state, and what it caches.
CacheValid ==
  /\ buf_stats_cache # <<>>
  /\ buf_cache_timestamp # NoTime
  /\ buf_now - buf_cache_timestamp < CACHE_SECONDS * TicksPerSecond
StatisticsReturned ==
  IF CacheValid THEN buf_stats_cache[1] ELSE Statistics(buf_values)
StatisticsCached ==
  IF CacheValid \/ is_empty
  THEN UNCHANGED <<buf_stats_cache, buf_cache_timestamp>>
  ELSE /\ buf_stats_cache' = <<Statistics(buf_values)>>
       /\ buf_cache_timestamp' = buf_now

\* to_dict(): the dict, with the statistics get_statistics returns (and
\* caches).
to_dict ==
  [values |-> get_values,
   timestamps |-> [i \in 1..Len(buf_timestamps) |-> isoformat(buf_timestamps[i])],
   max_size |-> buf_max_size,
   statistics |-> StatisticsReturned]

BufToDict ==
  /\ buf_last' = BufQuery("to_dict", <<>>, <<to_dict>>)
  /\ StatisticsCached
  /\ UNCHANGED <<buf_max_size, buf_values, buf_timestamps, buf_now,
                 buf_appended>>
  /\ UNCHANGED <<dbVars, entVars, pinkVars, metVars, toolVars>>

\* Mutation: the values are added without their timestamps, so they are
\* stamped with the time of the call.
FromDictRestamped(data) ==
  [values |-> DequeExtend(<<>>, data.values, data.max_size),
   timestamps |-> DequeExtend(<<>>, [i \in 1..Len(data.values) |-> buf_now],
                              data.max_size),
   max_size |-> data.max_size]

\* from_dict(data): the values, timestamps and max_size of the buffer it
\* builds.
from_dict(data) ==
  LET datetime_timestamps ==
        [i \in 1..Len(data.timestamps) |-> fromisoformat(data.timestamps[i])]
  IN [values |-> DequeExtend(<<>>, data.values, data.max_size),
      timestamps |-> DequeExtend(<<>>, datetime_timestamps, data.max_size),
      max_size |-> data.max_size]

\* OscillationBuffer.from_dict(b.to_dict()): from_dict on the dict the last
\* call returned.
BufFromDict ==
  /\ buf_last.op = "to_dict"
  /\ buf_last' = BufQuery("from_dict", <<>>, <<from_dict(buf_last.ret[1])>>)
  /\ BufUnchanged
  /\ UNCHANGED <<dbVars, entVars, pinkVars, metVars, toolVars>>

\* Time passes between two calls.
BufTick ==
  /\ buf_now < MaxBufClock
  /\ buf_now' = buf_now + 1
  /\ UNCHANGED <<buf_max_size, buf_values, buf_timestamps, buf_stats_cache,
                 buf_cache_timestamp, buf_appended, buf_last>>
  /\ UNCHANGED <<dbVars, entVars, pinkVars, metVars, toolVars>>

BufInit == \E c \in 1..MaxCapacity : OscillationBuffer(c)

BufNext ==
  \/ \E v \in BufVals, t \in BufTimes \cup {NoTime} : BufAdd(v, t)
  \/ \E vs \in BufValueLists, g \in BOOLEAN, ts \in BufTimeLists :
       BufAddMultiple(vs, g, ts)
  \/ BufClear
  \/ BufGetStatistics
  \/ \E count \in 0..MaxCount : BufGetRecent(count)
  \/ \E target_size \in 1..MaxTarget : BufResample(target_size)
  \/ BufGetDerivative
  \/ BufToDict
  \/ BufFromDict
  \/ BufTick

(* ======================== SecureEntropySource ========================= *)
\* The environment of one get_secure_entropy call: "ok", "secrets" when
\* secrets.randbits raises, "urandom" when os.urandom raises.
EntropyEnvs == {"ok", "secrets", "urandom"}

\* bytes_count arguments: negative, zero, every width blake2b accepts and one
\* above
Widths == (-1)..(MAX_DIGEST_SIZE + 1)

ByteMax == (2 ^ BitsPerByte) - 1

\* 256 ^ k
Range(k) == 2 ^ (BitsPerByte * k)

\* x & ((1 << bits) - 1)
Mask(x, bits) == x % (2 ^ bits)

RECURSIVE Xor(_, _)
Xor(a, b) ==
  IF a = 0 THEN b
  ELSE IF b = 0 THEN a
  ELSE (((a % 2) + (b % 2)) % 2) + 2 * Xor(a \div 2, b \div 2)

\* _rotate_left(value, shift, width) for width > 0
_rotate_left(value, shift, width) ==
  LET v == Mask(value, width)
      sh == shift % width
  IN Mask((v * (2 ^ sh)) + (v \div (2 ^ (width - sh))), width)

\* int.from_bytes(bytes, byteorder='little')
RECURSIVE FromBytes(_)
FromBytes(bytes) ==
  IF bytes = <<>> THEN 0
  ELSE Head(bytes) + ((2 ^ BitsPerByte) * FromBytes(Tail(bytes)))

\* int.to_bytes(n, byteorder='little') of a value below 256 ^ n
RECURSIVE ToBytes(_, _)
ToBytes(x, n) ==
  IF n = 0 THEN <<>>
  ELSE <<x % (2 ^ BitsPerByte)>> \o ToBytes(x \div (2 ^ BitsPerByte), n - 1)

\* The byte strings a random source or a hash can return, by representatives:
\* all bytes 0 and all bytes 255, the two ends of the range.
ByteStrings(n) == {[i \in 1..n |-> 0], [i \in 1..n |-> ByteMax]}

\* os.urandom(n) for n >= 0
urandom(n) == ByteStrings(n)

\* secrets.randbits(k) for k >= 0
randbits(k) == {0, (2 ^ k) - 1}

\* hash(time_ns), hash(id(object())), hash(pid + process_time_ns) of one call
HashTriples == {<<0, 0, 0>>, <<63, 1, 40>>}

\* hashlib.blake2b(data, digest_size=n).digest() for an n blake2b accepts: some
\* n bytes
blake2b(data, n) == ByteStrings(n)


\* What one call leaves behind: the value returned (NoValue when the call
\* raised), the path that produced it and the movement of the counters.
Outcome(ret, raised, path, ok, failed, bits) ==
  [ret |-> ret, raised |-> raised, path |-> path,
   ok |-> ok, failed |-> failed, bits |-> bits]

NoValue == -1

\* _get_combined_secure_entropy raises: a negative shift count at line 93,
\* the failing source at line 96 or 99, shift % 0 in _rotate_left for a width
\* of 0 bits, or a digest_size blake2b refuses at line 134.
CombinedRaises(n, env) ==
  \/ n < 0
  \/ env # "ok"
  \/ n = 0
  \/ n > MAX_DIGEST_SIZE

\* The XOR of the five sources (lines 114-120), for a width it is computed for.
Combine(entropy1, entropy2, h, bit_count) ==
  LET entropy3 == Mask(h[1], bit_count)
      memory_entropy == Mask(h[2], bit_count)
      process_entropy == Mask(h[3], bit_count)
      c1 == Xor(entropy1, entropy2)
      c2 == Xor(c1, _rotate_left(entropy3, 8, bit_count))
      c3 == Xor(c2, _rotate_left(memory_entropy, 16, bit_count))
      c4 == Xor(c3, _rotate_left(process_entropy, 24, bit_count))
  IN Mask(c4, bit_count)

\* The values _get_combined_secure_entropy returns when it does not raise.
_get_combined_secure_entropy(n) ==
  LET bit_count == n * BitsPerByte
  IN {FromBytes(final_hash) :
        final_hash \in UNION {blake2b(ToBytes(Combine(entropy1, FromBytes(entropy_bytes),
                                                       h, bit_count), n), n) :
                                entropy1 \in randbits(bit_count),
                                entropy_bytes \in urandom(n),
                                h \in HashTriples}}

\* Mutation: a call that fell back still adds its width to the bit total.
EmergencyCountsBits(n, env) ==
  IF n >= 0 /\ env # "urandom"
  THEN {Outcome(FromBytes(b), FALSE, "urandom", 0, 1, n * BitsPerByte) :
          b \in urandom(n)}
  ELSE IF n >= 0
  THEN {Outcome(Mask(Xor(h[1], h[3]), n * BitsPerByte), FALSE, "time", 0, 1,
                n * BitsPerByte) : h \in HashTriples}
  ELSE {Outcome(NoValue, TRUE, "raised", 0, 1, 0)}

\* Mutation: the time-based value is returned without the width mask.
EmergencyUnmasked(n, env) ==
  IF n >= 0 /\ env # "urandom"
  THEN {Outcome(FromBytes(b), FALSE, "urandom", 0, 1, 0) : b \in urandom(n)}
  ELSE IF n >= 0
  THEN {Outcome(Xor(h[1], h[3]), FALSE, "time", 0, 1, 0) : h \in HashTriples}
  ELSE {Outcome(NoValue, TRUE, "raised", 0, 1, 0)}

\* _get_emergency_entropy: os.urandom, else the time-based value; a negative
\* bytes_count makes os.urandom raise and then the shift of the time-based
\* branch raise inside the handler.
_get_emergency_entropy(n, env) ==
  IF n >= 0 /\ env # "urandom"
  THEN {Outcome(FromBytes(b), FALSE, "urandom", 0, 1, 0) : b \in urandom(n)}
  ELSE IF n >= 0
  THEN {Outcome(Mask(Xor(h[1], h[3]), n * BitsPerByte), FALSE, "time", 0, 1, 0) :
          h \in HashTriples}
  ELSE {Outcome(NoValue, TRUE, "raised", 0, 1, 0)}

\* get_secure_entropy(bytes_count): every outcome of one call
get_secure_entropy(n, env) ==
  IF CombinedRaises(n, env)
  THEN _get_emergency_entropy(n, env)
  ELSE {Outcome(v, FALSE, "combined", 1, 0, n * BitsPerByte) :
          v \in _get_combined_secure_entropy(n)}

\* Mutation: the normalization divides by the largest remainder, so that the
\* values span 0.0 to 1.0 inclusive.
NormalizeInclusive(entropy) ==
  [num |-> entropy % NORM_MODULUS, den |-> NORM_MODULUS - 1]

\* (entropy % 1000000) / 1000000.0, as numerator and denominator
Normalize(entropy) == [num |-> entropy % NORM_MODULUS, den |-> NORM_MODULUS]

\* The fallback of _prefill_buffer (lines 172-173): hash(...) & 0xFFFFFFFF
PrefillFallback(h) == Normalize(Mask(h, PREFILL_BYTES * BitsPerByte))

\* The state of a SecureEntropySource
EntState(buf, ok, failed, bits) ==
  [buf |-> buf, ok |-> ok, failed |-> failed, bits |-> bits]

\* One pass of the loop of _prefill_buffer from the state st
PrefillStep(st) ==
  {EntState(Append(st.buf, IF o.raised THEN PrefillFallback(h[1]) ELSE Normalize(o.ret)),
            st.ok + o.ok, st.failed + o.failed, st.bits + o.bits) :
     o \in UNION {get_secure_entropy(PREFILL_BYTES, env) : env \in EntropyEnvs},
     h \in HashTriples}

\* _prefill_buffer: range(self.buffer_size) passes
RECURSIVE PrefillLoop(_, _)
PrefillLoop(sts, k) ==
  IF k = 0 THEN sts
  ELSE PrefillLoop(UNION {PrefillStep(st) : st \in sts}, k - 1)

_prefill_buffer(st) == PrefillLoop({st}, buffer_size)

\* op: the method called; n: the bytes_count of get_secure_entropy, or the
\* number of values a get_normalized_entropy refilled; ret: the integer
\* returned, or the numerator of the normalized value with den its
\* denominator; path: the branch that produced the value.
EntCall(op, n, ret, den, raised, path) ==
  [op |-> op, n |-> n, ret |-> ret, den |-> den, raised |-> raised, path |-> path]

\* The stand-alone source before it is constructed.
EntIdle ==
  /\ entropy_buffer = <<>>
  /\ successful_calls = 0
  /\ failed_calls = 0
  /\ total_entropy_bits = 0
  /\ ent_last = EntCall("none", 0, NoValue, 0, FALSE, "none")

\* __init__
EntInit ==
  \E st \in _prefill_buffer(EntState(<<>>, 0, 0, 0)) :
    /\ entropy_buffer = st.buf
    /\ successful_calls = st.ok
    /\ failed_calls = st.failed
    /\ total_entropy_bits = st.bits
    /\ ent_last = EntCall("__init__", buffer_size, NoValue, 0, FALSE, "none")

GetSecureEntropy(n, env) ==
  /\ successful_calls + failed_calls < MaxEntropyCalls
  /\ \E o \in get_secure_entropy(n, env) :
       /\ successful_calls' = successful_calls + o.ok
       /\ failed_calls' = failed_calls + o.failed
       /\ total_entropy_bits' = total_entropy_bits + o.bits
       /\ ent_last' = EntCall("get_secure_entropy", n, o.ret, 0, o.raised, o.path)
  /\ UNCHANGED entropy_buffer
  /\ UNCHANGED <<dbVars, bufVars, pinkVars, metVars, toolVars>>

\* get_normalized_entropy: the value returned is kept in ent_last.ret
GetNormalizedEntropy ==
  /\ successful_calls + failed_calls
       + (IF Len(entropy_buffer) < REFILL_THRESHOLD THEN buffer_size ELSE 0)
       <= MaxEntropyCalls
  /\ \E st \in (IF Len(entropy_buffer) < REFILL_THRESHOLD
                THEN _prefill_buffer(EntState(entropy_buffer, successful_calls,
                                              failed_calls, total_entropy_bits))
                ELSE {EntState(entropy_buffer, successful_calls,
                               failed_calls, total_entropy_bits)}) :
       IF st.buf # <<>>
       THEN /\ entropy_buffer' = SubSeq(st.buf, 1, Len(st.buf) - 1)
            /\ successful_calls' = st.ok
            /\ failed_calls' = st.failed
            /\ total_entropy_bits' = st.bits
            /\ ent_last' = EntCall("get_normalized_entropy",
                                    Len(st.buf) - Len(entropy_buffer),
                                    st.buf[Len(st.buf)].num, st.buf[Len(st.buf)].den,
                                    FALSE, "buffer")
       ELSE \E o \in UNION {get_secure_entropy(PREFILL_BYTES, env) : env \in EntropyEnvs} :
              /\ entropy_buffer' = st.buf
              /\ successful_calls' = st.ok + o.ok
              /\ failed_calls' = st.failed + o.failed
              /\ total_entropy_bits' = st.bits + o.bits
              /\ ent_last' = EntCall("get_normalized_entropy",
                                      Len(st.buf) - Len(entropy_buffer),
                                      Normalize(o.ret).num, Normalize(o.ret).den,
                                      FALSE, o.path)
  /\ UNCHANGED <<dbVars, bufVars, pinkVars, metVars, toolVars>>

\* The success_rate of assess_entropy_quality, as numerator and denominator.
success_rate(successful, failed) ==
  IF successful + failed > 0
  THEN [num |-> successful, den |-> successful + failed]
  ELSE [num |-> 0, den |-> 1]

\* assess_entropy_quality: the success_rate is kept in ent_last.ret and
\* ent_last.den, the reported buffer_size in ent_last.n.
AssessEntropyQuality ==
  /\ ent_last' = EntCall("assess_entropy_quality", Len(entropy_buffer),
                         success_rate(successful_calls, failed_calls).num,
                         success_rate(successful_calls, failed_calls).den,
                         FALSE, "none")
  /\ UNCHANGED <<entropy_buffer, successful_calls, failed_calls,
                 total_entropy_bits>>
  /\ UNCHANGED <<dbVars, bufVars, pinkVars, metVars, toolVars>>

EntNext ==
  \/ \E n \in Widths, env \in EntropyEnvs : GetSecureEntropy(n, env)
  \/ GetNormalizedEntropy
  \/ AssessEntropyQuality

(* ================== SecureEnhancedPinkNoiseGenerator ================== *)
\* Floats as exact fractions in lowest terms.
RECURSIVE GCD(_, _)
GCD(a, b) == IF b = 0 THEN a ELSE GCD(b, a % b)
Q(num, den) ==
  LET g == GCD(IF num < 0 THEN 0 - num ELSE num, den)
  IN [num |-> num \div g, den |-> den \div g]
QAdd(a, b) ==
  LET l == (a.den \div GCD(a.den, b.den)) * b.den
  IN Q(a.num * (l \div a.den) + b.num * (l \div b.den), l)
\* a * n / d
QScale(a, n, d) ==
  LET g == GCD(IF a.num < 0 THEN 0 - a.num ELSE a.num, d)
      h == GCD(n, a.den)
  IN Q((a.num \div g) * (n \div h), (a.den \div h) * (d \div g))
RECURSIVE QSum(_)
QSum(seq) == IF seq = <<>> THEN Q(0, 1) ELSE QAdd(Head(seq), QSum(Tail(seq)))

\* The values get_normalized_entropy hands to the generator, by
\* representatives: the smallest and the largest normalized value.
NormalizedEnds == {Normalize(0), Normalize(NORM_MODULUS - 1)}

\* The three draws of one get_thermal_oscillation call, by representatives:
\* the smallest and the largest oscillation.
ThermalDraws == {<<e, e, e>> : e \in NormalizedEnds}

\* secure_entropy * 2.0 - 1.0
White(e) == Q(2 * e.num - e.den, e.den)

\* get_thermal_oscillation(0.1) of SecureEntropySource from its three draws:
\* ((e1 * 0.5 + e2 * 0.3 + e3 * 0.2) - 0.5) * base_amplitude
get_thermal_oscillation(e) ==
  LET oscillation ==
        QAdd(QAdd(QAdd(QScale(e[1], 5, 10), QScale(e[2], 3, 10)),
                  QScale(e[3], 2, 10)),
             Q(0 - 1, 2))
  IN QScale(oscillation, 1, 10)

\* Bit i of a key.
Bit(x, i) == (x \div (2 ^ i)) % 2

\* pink_value * 0.8 + thermal_component * 0.2
Enhance(white, thermal_component) ==
  LET pink_value == QScale(QSum(white), 1, octaves)
  IN QAdd(QScale(pink_value, 8, 10), QScale(thermal_component, 2, 10))

\* last_value * 0.7 + enhanced_pink * 0.3
Smooth(last_value, enhanced_pink) ==
  QAdd(QScale(last_value, 7, 10), QScale(enhanced_pink, 3, 10))

\* Mutation: the newest value leaves a full history.
LimitHistoryDropNewest(history) ==
  IF Len(history) > HISTORY_CAP
  THEN SubSeq(history, 1, Len(history) - 1) ELSE history

\* if len(self.pink_values) > 100: self.pink_values.pop(0)
LimitHistory(history) ==
  IF Len(history) > HISTORY_CAP THEN Tail(history) ELSE history

\* op: the method called; n: the length asked of get_history; ret: the
\* values returned; blend: the enhanced_pink of a generate call; redrawn: the
\* octaves (1..octaves for the bits 0..octaves-1) the call drew anew.
PinkCall(op, n, ret, blend, redrawn) ==
  [op |-> op, n |-> n, ret |-> ret, blend |-> blend, redrawn |-> redrawn]

\* Mutation: the octave of bit 0 is left out of the redraw.
ToggledAboveBitZero(diff) == {i \in 2..octaves : Bit(diff, i - 1) # 0}

\* pink_noise.py:50-51: the octaves whose bit of diff is set
Toggled(diff) == {i \in 1..octaves : Bit(diff, i - 1) # 0}

\* The state __init__ and reset() leave: key 0, one fresh white value and one
\* 0.0 in pink_values per octave.
Reinitialize(op) ==
  \E draws \in [1..octaves -> NormalizedEnds] :
    /\ pn_key = 0
    /\ pn_white_values = [i \in 1..octaves |-> White(draws[i])]
    /\ pn_pink_values = [i \in 1..octaves |-> Q(0, 1)]
    /\ pn_returned = <<>>
    /\ pn_last = PinkCall(op, 0, <<>>, <<>>, 1..octaves)

\* A generator left as the constructor leaves it.
PinkInit == Reinitialize("__init__")

\* The generator of a specification that never calls it.
PinkIdle ==
  /\ pn_key = 0
  /\ pn_white_values = <<>>
  /\ pn_pink_values = <<>>
  /\ pn_returned = <<>>
  /\ pn_last = PinkCall("none", 0, <<>>, <<>>, {})

\* generate_secure_pink_noise()
GenerateSecurePinkNoise ==
  /\ Len(pn_returned) < MaxGenerated
  /\ LET last_key == pn_key
         new_key == NextKey(last_key)
         diff == Xor(last_key, new_key)
         toggled == Toggled(diff)
     IN \E draws \in [toggled -> NormalizedEnds], th \in ThermalDraws :
          LET white == [i \in 1..octaves |->
                          IF i \in toggled THEN White(draws[i])
                          ELSE pn_white_values[i]]
              enhanced_pink == Enhance(white, get_thermal_oscillation(th))
              out == IF pn_pink_values # <<>>
                     THEN Smooth(pn_pink_values[Len(pn_pink_values)], enhanced_pink)
                     ELSE enhanced_pink
          IN /\ pn_key' = new_key
             /\ pn_white_values' = white
             /\ pn_pink_values' =
                  IF pn_pink_values # <<>>
                  THEN LimitHistory(Append(pn_pink_values, out))
                  ELSE Append(pn_pink_values, out)
             /\ pn_returned' = Append(pn_returned, out)
             /\ pn_last' = PinkCall("generate_secure_pink_noise", 0, <<out>>,
                                    <<enhanced_pink>>, toggled)
  /\ UNCHANGED <<dbVars, bufVars, entVars, metVars, toolVars>>

\* reset()
PinkReset ==
  /\ \E draws \in [1..octaves -> NormalizedEnds] :
       /\ pn_key' = 0
       /\ pn_white_values' = [i \in 1..octaves |-> White(draws[i])]
       /\ pn_pink_values' = [i \in 1..octaves |-> Q(0, 1)]
       /\ pn_returned' = <<>>
       /\ pn_last' = PinkCall("reset", 0, <<>>, <<>>, 1..octaves)
  /\ UNCHANGED <<dbVars, bufVars, entVars, metVars, toolVars>>

\* get_history(length)
get_history(length) ==
  IF Len(pn_pink_values) >= length
  THEN SliceFrom(pn_pink_values, 0 - length)
  ELSE pn_pink_values

PinkGetHistory(length) ==
  /\ pn_last' = PinkCall("get_history", length, get_history(length), <<>>, {})
  /\ UNCHANGED <<pn_key, pn_white_values, pn_pink_values, pn_returned>>
  /\ UNCHANGED <<dbVars, bufVars, entVars, metVars, toolVars>>

PinkNext ==
  \/ GenerateSecurePinkNoise
  \/ PinkReset
  \/ \E length \in 0..MaxLength : PinkGetHistory(length)

(* ==================== calculate_oscillation_metrics =================== *)
\* A sample: an ordinary float v, or one of NaN, +Inf and a finite float so
\* large that its square overflows ("huge", such as 1e200).
Sample(cls, v) == [cls |-> cls, v |-> v]
MetVals == {Sample("plain", 0), Sample("plain", 1)}
Specials == {Sample("nan", 0), Sample("inf", 0), Sample("huge", 0)}

\* The lists handed to calculate_oscillation_metrics: ordinary values, the
\* first of them possibly replaced by a special one.
PlainLists(lo) == UNION {[1..n -> MetVals] : n \in lo..MaxSamples}
MetLists ==
  PlainLists(0) \cup {[l EXCEPT ![1] = x] : l \in PlainLists(1), x \in Specials}

\* The entropy_source argument: None, or a source with its counters.
Source(supplied, successful, failed) ==
  [supplied |-> supplied, successful |-> successful, failed |-> failed]
Sources == {Source(FALSE, 0, 0), Source(TRUE, 1, 0), Source(TRUE, 1, 1)}

\* Values of a metrics dict: strings, ints, floats by what is known of them
\* ("nan", "inf", "zero", "half", "one", "unit" for (0, 1], "unit0" for
\* [0, 1], "fin" for any finite float), correlations by their terms.
Str(x) == [kind |-> "str", val |-> x]
Whole(x) == [kind |-> "int", val |-> x]
Float(x) == [kind |-> "float", val |-> x]

\* What the list contains decides how numpy's reductions come out.
ListClass(values) ==
  IF \E i \in DOMAIN values : values[i].cls = "nan" THEN "nan"
  ELSE IF \E i \in DOMAIN values : values[i].cls = "inf" THEN "inf"
  ELSE IF \E i \in DOMAIN values : values[i].cls = "huge" THEN "huge"
  ELSE "plain"

Pick(cls, plain, huge, inf, nan) ==
  CASE cls = "plain" -> plain
    [] cls = "huge" -> huge
    [] cls = "inf" -> inf
    [] OTHER -> nan

\* calculate_basic_metrics for a non-empty list: np.mean, np.std, np.var,
\* np.min, np.max carry NaN and Inf through, and the squares of the variance
\* overflow on a huge value.
calculate_basic_metrics(values) ==
  LET c == ListClass(values)
  IN [mean |-> Float(Pick(c, "fin", "fin", "inf", "nan")),
      std |-> Float(Pick(c, "fin", "inf", "nan", "nan")),
      variance |-> Float(Pick(c, "fin", "inf", "nan", "nan")),
      min |-> Float(Pick(c, "fin", "fin", "fin", "nan")),
      max |-> Float(Pick(c, "fin", "fin", "inf", "nan")),
      range |-> Float(Pick(c, "fin", "fin", "inf", "nan")),
      count |-> Whole(Len(values))]

\* np.polyfit(x, values, 1): the slope, or "LinAlgError" when the least
\* squares fit of non-finite values does not converge.
polyfit(values) ==
  IF ListClass(values) \in {"plain", "huge"} THEN {"fin"}
  ELSE {"nan", "LinAlgError"}

\* calculate_stability_metrics for two values or more: the dicts it can
\* return, <<>> standing for the exception of polyfit.
calculate_stability_metrics(values) ==
  LET c == ListClass(values)
  IN {IF slope = "LinAlgError" THEN <<>>
      ELSE [stability |-> Float(Pick(c, "unit", "zero", "nan", "nan")),
            volatility |-> Float(Pick(c, "fin", "inf", "nan", "nan")),
            trend |-> Float(slope)] : slope \in polyfit(values)}

RECURSIVE SumOver(_, _, _)
\* the sum of f[i] * g[i] over the index set
SumOver(f, g, idx) ==
  IF idx = {} THEN 0
  ELSE LET i == CHOOSE j \in idx : TRUE
       IN f[i].v * g[i].v + SumOver(f, g, idx \ {i})

\* np.corrcoef(values[:-lag], values[lag:])[0, 1] with the NaN check of
\* lines 112-115: the covariance and the two variances (each times the
\* square of the count) of a correlation r = cov / sqrt(vx * vy), or 0.0.
Corrcoef(values, lag) ==
  LET m == Len(values) - lag
      x == [i \in 1..m |-> values[i]]
      y == [i \in 1..m |-> values[i + lag]]
      unit == [i \in 1..m |-> Sample("plain", 1)]
      cov == m * SumOver(x, y, 1..m) - SumOver(x, unit, 1..m) * SumOver(y, unit, 1..m)
      vx == m * SumOver(x, x, 1..m) - SumOver(x, unit, 1..m) * SumOver(x, unit, 1..m)
      vy == m * SumOver(y, y, 1..m) - SumOver(y, unit, 1..m) * SumOver(y, unit, 1..m)
  IN IF ListClass(values) # "plain" \/ vx * vy = 0 THEN Float("zero")
     ELSE [kind |-> "corr", val |-> <<cov, vx, vy>>]

\* 1.0 - abs(first_order)
OneMinusAbs(first_order) ==
  IF first_order.kind = "float" THEN Float("one")
  ELSE [kind |-> "score", val |-> first_order.val]

\* calculate_autocorrelation(values, max_lag)
calculate_autocorrelation(values, max_lag) ==
  IF Len(values) < max_lag + 1
  THEN [autocorrelations |-> <<>>, first_order |-> Float("zero"),
        randomness_score |-> Float("half")]
  ELSE LET stop == IF max_lag + 1 < Len(values) \div 2
                   THEN max_lag + 1 ELSE Len(values) \div 2
           autocorrelations == [lag \in 1..(stop - 1) |-> Corrcoef(values, lag)]
           first_order == IF autocorrelations # <<>> THEN autocorrelations[1]
                          ELSE Float("zero")
       IN [autocorrelations |-> autocorrelations,
           first_order |-> first_order,
           randomness_score |-> OneMinusAbs(first_order)]

\* calculate_spectral_analysis: the dominant frequency is one of the FFT
\* frequencies, whatever the powers are.
calculate_spectral_analysis(values) == [dominant_frequency |-> Float("fin")]

\* assess_pink_noise_quality for eight values or more: max(0.0, 1.0 -
\* slope_deviation), and 0.0 when no power is finite.
assess_pink_noise_quality(values) ==
  [pink_noise_quality |->
     Float(Pick(ListClass(values), "unit0", "zero", "zero", "zero"))]

\* calculate_chaos_metrics for ten values or more: np.histogram raises on a
\* non-finite range and the handler returns the defaults.
calculate_chaos_metrics(values) ==
  IF ListClass(values) \in {"plain", "huge"}
  THEN [lyapunov_estimate |-> Float("fin"), entropy |-> Float("fin"),
        fractal_dimension |-> Float("fin")]
  ELSE [lyapunov_estimate |-> Float("zero"), entropy |-> Float("zero"),
        fractal_dimension |-> Float("one")]

\* Mutation: the source is attached before the early return of line 351.
SourceAttachedAlways(data_count, entropy_source) == entropy_source.supplied

\* The entropy source information is attached (lines 349-351 return before
\* line 382 is reached).
SourceAttached(data_count, entropy_source) ==
  data_count >= 3 /\ entropy_source.supplied

\* Mutation: every result below the full tier carries the warning.
WarningLevelsBelowFull == {"insufficient", "basic", "intermediate"}

\* line 389
WarningLevels == {"basic", "intermediate"}

\* The keys of lines 383-386.
EntropyInfo(entropy_source) ==
  [secure_entropy_contribution |->
     [kind |-> "rate",
      val |-> success_rate(entropy_source.successful, entropy_source.failed)],
   entropy_source |-> Str("secure_combined"),
   security_level |-> Str("high")]

\* calculate_oscillation_metrics(values, entropy_source): every outcome of a
\* call, raised with no dict when polyfit raised.
calculate_oscillation_metrics(values, entropy_source) ==
  LET data_count == Len(values)
      head == [data_level |-> Str(data_level(data_count)),
               total_samples |-> Whole(data_count)]
      source == IF SourceAttached(data_count, entropy_source)
                THEN EntropyInfo(entropy_source) ELSE <<>>
      warning == IF data_level(data_count) \in WarningLevels
                 THEN [warning |-> Str("Limited data")] ELSE <<>>
  IN IF data_count < 3
     THEN {[raised |-> FALSE,
            metrics |-> warning @@ source
                          @@ [error |-> Str("Insufficient data")] @@ head]}
     ELSE {IF stability = <<>> THEN [raised |-> TRUE, metrics |-> <<>>]
           ELSE LET autocorr == calculate_autocorrelation(values, MAX_LAG)
                    second ==
                      IF data_count >= 5
                      THEN [first_order_autocorr |-> autocorr.first_order,
                            entropy_randomness_score |-> autocorr.randomness_score]
                      ELSE <<>>
                    third ==
                      IF data_count >= 10
                      THEN calculate_chaos_metrics(values)
                             @@ [pink_noise_quality |->
                                   assess_pink_noise_quality(values).pink_noise_quality,
                                 dominant_frequency |->
                                   calculate_spectral_analysis(values).dominant_frequency]
                      ELSE <<>>
                IN [raised |-> FALSE,
                    metrics |-> warning @@ source @@ third @@ second
                                  @@ stability
                                  @@ calculate_basic_metrics(values) @@ head] :
             stability \in calculate_stability_metrics(values)}

\* No call was made yet.
NoResult == [called |-> FALSE, raised |-> FALSE, metrics |-> <<>>]

\* The specifications that make no metrics call.
MetIdle ==
  /\ met_values = <<>>
  /\ met_entropy_source = Source(FALSE, 0, 0)
  /\ met_result = NoResult

\* The arguments of the call to come.
MetInit ==
  /\ met_values \in MetLists
  /\ met_entropy_source \in Sources
  /\ met_result = NoResult

\* The call.
CalculateMetrics ==
  /\ ~met_result.called
  /\ \E o \in calculate_oscillation_metrics(met_values, met_entropy_source) :
       met_result' = [called |-> TRUE, raised |-> o.raised, metrics |-> o.metrics]
  /\ UNCHANGED <<met_values, met_entropy_source>>
  /\ UNCHANGED <<dbVars, bufVars, entVars, pinkVars, toolVars>>

MetNext == CalculateMetrics

(* ============================ tool dispatch =========================== *)
Tasks == 1..MaxTasks

\* handler_map (handlers.py:326-347), by representatives: a tool that reads
\* and writes self.db, a tool that only reads it, and a name it does not hold.
WritingTools == {"add_conversation"}
ReadingTools == {"get_session_state"}
handler_map == WritingTools \cup ReadingTools
ToolNames == handler_map \cup {"no_such_tool"}

\* Where an invocation stands: "idle" before the request, "queued" once its
\* task exists, "call_tool" (server.py:40), "handle_tool" (handlers.py:315),
\* "handler" at the top of the handler's body, "read" after its first read of
\* self.db, "written" after its last write, "returned" when call_tool has
\* returned to the framework, "done" when the response is out.
ToolEvent(t, ev) == [task |-> t, ev |-> ev]

\* Mutation: the handler awaits between its read and its write of self.db.
SuspensionPointsInHandler == {"returned", "read"}

\* The positions at which a running invocation can hand the event loop
\* back.  The two awaits of the path (server.py:42, handlers.py:352) await
\* coroutines, which run on in the same task, and no handler body holds an
\* await; the task is suspended only in the framework, which awaits the
\* stream to send the response after call_tool has returned.
SuspensionPoints == {"returned"}

ToolInit ==
  /\ tool_pc = [t \in Tasks |-> "idle"]
  /\ tool_name = [t \in Tasks |-> "none"]
  /\ tool_running = 0
  /\ tool_local = [t \in Tasks |-> 0]
  /\ tool_shared = 0
  /\ tool_log = <<>>

\* The framework reads a request and creates the task of its invocation.
Receive(t, name) ==
  /\ tool_running = 0
  /\ tool_pc[t] = "idle"
  /\ tool_pc' = [tool_pc EXCEPT ![t] = "queued"]
  /\ tool_name' = [tool_name EXCEPT ![t] = name]
  /\ UNCHANGED <<tool_running, tool_local, tool_shared, tool_log>>
  /\ UNCHANGED <<dbVars, bufVars, entVars, pinkVars, metVars>>

\* The event loop, running nothing, runs a task that is ready.
Resume(t) ==
  /\ tool_running = 0
  /\ tool_pc[t] \notin {"idle", "done"}
  /\ tool_running' = t
  /\ UNCHANGED <<tool_pc, tool_name, tool_local, tool_shared, tool_log>>
  /\ UNCHANGED <<dbVars, bufVars, entVars, pinkVars, metVars>>

\* The running task hands the event loop back at a suspension point.
Yield(t) ==
  /\ tool_running = t
  /\ tool_pc[t] \in SuspensionPoints
  /\ tool_running' = 0
  /\ UNCHANGED <<tool_pc, tool_name, tool_local, tool_shared, tool_log>>
  /\ UNCHANGED <<dbVars, bufVars, entVars, pinkVars, metVars>>

\* server.py:39-42
CallTool(t) ==
  /\ tool_running = t
  /\ tool_pc[t] = "queued"
  /\ tool_pc' = [tool_pc EXCEPT ![t] = "call_tool"]
  /\ UNCHANGED <<tool_name, tool_running, tool_local, tool_shared, tool_log>>
  /\ UNCHANGED <<dbVars, bufVars, entVars, pinkVars, metVars>>

\* handlers.py:315-363: the handler is looked up and awaited; an unknown
\* name is answered at once
HandleTool(t) ==
  /\ tool_running = t
  /\ tool_pc[t] = "call_tool"
  /\ tool_pc' = [tool_pc EXCEPT ![t] =
                   IF tool_name[t] \in handler_map THEN "handler" ELSE "returned"]
  /\ UNCHANGED <<tool_name, tool_running, tool_local, tool_shared, tool_log>>
  /\ UNCHANGED <<dbVars, bufVars, entVars, pinkVars, metVars>>

\* the handler's call into self.db reads the state
HandlerRead(t) ==
  /\ tool_running = t
  /\ tool_pc[t] = "handler"
  /\ tool_pc' = [tool_pc EXCEPT ![t] = "read"]
  /\ tool_local' = [tool_local EXCEPT ![t] = tool_shared]
  /\ tool_log' = Append(tool_log, ToolEvent(t, "read"))
  /\ UNCHANGED <<tool_name, tool_running, tool_shared>>
  /\ UNCHANGED <<dbVars, bufVars, entVars, pinkVars, metVars>>

\* and writes what it computed from what it read
HandlerWrite(t) ==
  /\ tool_running = t
  /\ tool_pc[t] = "read"
  /\ tool_name[t] \in WritingTools
  /\ tool_pc' = [tool_pc EXCEPT ![t] = "written"]
  /\ tool_shared' = tool_local[t] + 1
  /\ tool_log' = Append(tool_log, ToolEvent(t, "write"))
  /\ UNCHANGED <<tool_name, tool_running, tool_local>>
  /\ UNCHANGED <<dbVars, bufVars, entVars, pinkVars, metVars>>

\* The handler returns, or raises and handle_tool answers with the error
\* text (handlers.py:353-358): after the write, or after the read when the
\* tool writes nothing or the call into self.db raised.
HandlerReturn(t) ==
  /\ tool_running = t
  /\ tool_pc[t] \in {"read", "written"}
  /\ tool_pc' = [tool_pc EXCEPT ![t] = "returned"]
  /\ UNCHANGED <<tool_name, tool_running, tool_local, tool_shared, tool_log>>
  /\ UNCHANGED <<dbVars, bufVars, entVars, pinkVars, metVars>>

\* The framework has sent the response; the task ends.
Finish(t) ==
  /\ tool_running = t
  /\ tool_pc[t] = "returned"
  /\ tool_pc' = [tool_pc EXCEPT ![t] = "done"]
  /\ tool_running' = 0
  /\ UNCHANGED <<tool_name, tool_local, tool_shared, tool_log>>
  /\ UNCHANGED <<dbVars, bufVars, entVars, pinkVars, metVars>>

ToolNext ==
  \/ \E t \in Tasks, name \in ToolNames : Receive(t, name)
  \/ \E t \in Tasks : Resume(t)
  \/ \E t \in Tasks : Yield(t)
  \/ \E t \in Tasks : CallTool(t)
  \/ \E t \in Tasks : HandleTool(t)
  \/ \E t \in Tasks : HandlerRead(t)
  \/ \E t \in Tasks : HandlerWrite(t)
  \/ \E t \in Tasks : HandlerReturn(t)
  \/ \E t \in Tasks : Finish(t)

(* ---------------------------- specifications -------------------------- *)
\* The database manager; the stand-alone buffer object is left as the
\* default constructor leaves it.
Init == DbInit /\ OscillationBuffer(max_size) /\ EntIdle /\ PinkIdle /\ MetIdle /\ ToolInit
Next == DbNext
Spec == Init /\ [][Next]_vars

\* One OscillationBuffer object on its own.
InitBuf == DbInit /\ BufInit /\ EntIdle /\ PinkIdle /\ MetIdle /\ ToolInit
NextBuf == BufNext
SpecBuf == InitBuf /\ [][NextBuf]_vars

\* One SecureEntropySource object on its own.
InitEnt == DbInit /\ OscillationBuffer(max_size) /\ EntInit /\ PinkIdle /\ MetIdle /\ ToolInit
NextEnt == EntNext
SpecEnt == InitEnt /\ [][NextEnt]_vars

\* One SecureEnhancedPinkNoiseGenerator object on its own.
InitRestore == RestoreInit /\ OscillationBuffer(max_size) /\ EntIdle /\ PinkIdle /\ MetIdle /\ ToolInit
NextRestore == RestoreNext
SpecRestore == InitRestore /\ [][NextRestore]_vars

InitTool == DbInit /\ OscillationBuffer(max_size) /\ EntIdle /\ PinkIdle /\ MetIdle /\ ToolInit
NextTool == ToolNext
SpecTool == InitTool /\ [][NextTool]_vars

InitPink ==
  DbInit /\ OscillationBuffer(max_size) /\ EntIdle /\ PinkInit /\ MetIdle /\ ToolInit
NextPink == PinkNext
SpecPink == InitPink /\ [][NextPink]_vars

\* One call of calculate_oscillation_metrics on its own.
InitMet ==
  DbInit /\ OscillationBuffer(max_size) /\ EntIdle /\ PinkIdle /\ MetInit /\ ToolInit
NextMet == MetNext
SpecMet == InitMet /\ [][NextMet]_vars

(* ======================= claims: session buffers ====================== *)
PatternOps == {"add_oscillation_pattern", "add_relationship_state"}

\* the entry of sid as a caller reads it without creating it
Entry(buf, sid) == IF sid \in DOMAIN buf THEN buf[sid] ELSE EmptyEntry

\* the last call was a resume_session that returned True
Resumed == last.op = "resume_session" /\ last.ret = "True"

\* C1: after any sequence of calls, every session's buffer holds at most
\* max_size values and at most max_size timestamps.
C1_BufferWithinCap ==
  \A sid \in DOMAIN oscillation_buffer :
    /\ Len(oscillation_buffer[sid].values) <= max_size
    /\ Len(oscillation_buffer[sid].timestamps) <= max_size

\* C2: after any sequence of add and add_multiple calls (and clear), the
\* buffer never holds more than max_size values, and it holds exactly the
\* max_size most recently appended values in insertion order: once more than
\* max_size values were appended, index 0 holds the (k - max_size + 1)-th of
\* the k appended values.
C2_BufferHoldsNewest ==
  /\ size <= buf_max_size
  /\ Len(buf_timestamps) = size
  /\ buf_values = LastN(buf_appended, buf_max_size)
  /\ Len(buf_appended) > buf_max_size
       => buf_values[1] = buf_appended[Len(buf_appended) - buf_max_size + 1]

\* add_multiple overflowed a buffer of capacity 2 or more: the oldest values
\* were evicted and the newest ones are in
C2_Witness ==
  /\ buf_last.op = "add_multiple" /\ ~buf_last.raised
  /\ buf_max_size >= 2
  /\ Len(buf_appended) >= buf_max_size + 2
  /\ size = buf_max_size
  /\ buf_values[1] # buf_values[size]

\* The samples the store holds for a session: the history values of its
\* pattern records and the oscillation_value of its conversation records.
StoredCount(sid, v) ==
  LET ps == Where(patterns, sid)
      cs == Where(conversations, sid)
  IN Cardinality({<<i, j>> \in (1..Len(ps)) \X (1..max_size) :
                    j <= Len(ps[i].history) /\ ps[i].history[j] = v})
     + Cardinality({i \in 1..Len(cs) : cs[i].oscillation_value = v})

StoredTotal(sid) ==
  LET ps == Where(patterns, sid)
      cs == Where(conversations, sid)
  IN Cardinality({<<i, j>> \in (1..Len(ps)) \X (1..max_size) : j <= Len(ps[i].history)})
     + Len(cs)

Tokens == Vals \cup {ZERO, THERMAL, SUPPLEMENT, COMBINED, ENHANCED}

\* the exported snapshot is that of a started session to which samples were
\* added: the 5 seed values, then caller-supplied values, each with a timestamp
SeededAndSampled(values, timestamps) ==
  /\ Len(values) > SEED_COUNT
  /\ Len(timestamps) = Len(values)
  /\ \A i \in 1..Len(values) :
       IF i <= SEED_COUNT THEN values[i] = THERMAL ELSE values[i] \in Vals

C4_ResumeSorted ==
  Resumed =>
    /\ Len(oscillation_buffer[last.sid].values) >= 5
    /\ NonDecreasing(oscillation_buffer[last.sid].timestamps)

\* C5: a resume_session whose store lookups succeed leaves the buffer that a
\* resume from an empty buffer gives, whatever was in memory before.
C5_ResumeOverwrites ==
  [][(last'.op = "resume_session" /\ last'.ret = "True" /\ last'.fault = "none")
     => oscillation_buffer'[last'.sid] =
          _restore_oscillation_buffer(<<>>, last'.sid, "none", now')[last'.sid]]_vars

\* C6: a pattern event handled while a session is active grows that
\* session's buffer by exactly one value and one timestamp (observed where
\* the cap does not cut: fewer than max_size values before the event).
C6_OneSamplePerEvent ==
  [][(last'.op \in PatternOps /\ active_session_id # NoSid
        /\ Len(Entry(oscillation_buffer, active_session_id).values) < max_size)
     => /\ Len(oscillation_buffer'[active_session_id].values)
             = Len(Entry(oscillation_buffer, active_session_id).values) + 1
        /\ Len(oscillation_buffer'[active_session_id].timestamps)
             = Len(Entry(oscillation_buffer, active_session_id).timestamps) + 1]_vars

\* C7: after start_session the new session id has a buffer of exactly 5
\* values and 5 timestamps, and the buffer of every other session is unchanged.
C7_StartSeedsFive ==
  [][last'.op = "start_session"
     => /\ last'.sid \notin DOMAIN oscillation_buffer
        /\ DOMAIN oscillation_buffer' = DOMAIN oscillation_buffer \cup {last'.sid}
        /\ Len(oscillation_buffer'[last'.sid].values) = 5
        /\ Len(oscillation_buffer'[last'.sid].timestamps) = 5
        /\ \A s \in DOMAIN oscillation_buffer :
             oscillation_buffer'[s] = oscillation_buffer[s]]_vars

\* a session was started while another session had a buffer of its own
C7_Witness ==
  /\ last.op = "start_session"
  /\ \E s \in DOMAIN oscillation_buffer :
       s # last.sid /\ oscillation_buffer[s] # oscillation_buffer[last.sid]

\* C8: _ensure_oscillation_data(session, m) on a buffer of n values appends
\* exactly m - n values and m - n timestamps when n < m, so the length becomes
\* m, and changes neither the buffer nor the pink-noise key when n >= m; a
\* second call changes nothing.  Stated of the top-up that
\* calculate_oscillation_metrics runs (m = 5), and of the function for every
\* m on every buffer it is called on.
EnsureExact(sid, m) ==
  LET old == Entry(oscillation_buffer, sid)
      n == Len(old.values)
      buf1 == _ensure_oscillation_data(oscillation_buffer, sid, m, now)
      key1 == EnsureKey(oscillation_buffer, sid, m, key)
      new == buf1[sid]
  IN /\ n < m => /\ Len(new.values) = m
                 /\ Len(new.timestamps) = Len(old.timestamps) + (m - n)
                 /\ SubSeq(new.values, 1, n) = old.values
                 /\ \A i \in (n + 1)..m : new.values[i] = SUPPLEMENT
     /\ n >= m => new = old /\ key1 = key
     /\ \A s \in DOMAIN oscillation_buffer : s # sid => buf1[s] = oscillation_buffer[s]
     /\ _ensure_oscillation_data(buf1, sid, m, now) = buf1
     /\ EnsureKey(buf1, sid, m, key1) = key1

C8_EnsureExact ==
  [][(last'.op = "calculate_oscillation_metrics" /\ last'.sid # NoSid)
     => LET old == Entry(oscillation_buffer, last'.sid)
            new == oscillation_buffer'[last'.sid]
        IN /\ \A m \in 0..(max_size + 1) : EnsureExact(last'.sid, m)
           /\ IF Len(old.values) < MIN_OSCILLATION_SAMPLES
              THEN /\ Len(new.values) = MIN_OSCILLATION_SAMPLES
                   /\ Len(new.timestamps) - Len(old.timestamps)
                        = MIN_OSCILLATION_SAMPLES - Len(old.values)
                   /\ SubSeq(new.values, 1, Len(old.values)) = old.values
              ELSE new = old /\ key' = key]_vars

\* calculate_oscillation_metrics topped a short buffer up to 5
C8_Witness ==
  /\ last.op = "calculate_oscillation_metrics" /\ last.sid # NoSid
  /\ Len(oscillation_buffer[last.sid].values) = MIN_OSCILLATION_SAMPLES
  /\ Count(oscillation_buffer[last.sid].values, SUPPLEMENT) \in 1..4

\* the values of the session's stored pattern records, flattened
PatternValues(sid) == RestorePatterns(EmptyEntry, Where(patterns, sid)).values

C10_NoBufferAfterReset ==
  [][(last.op = "reset_database"
        /\ last'.op \in PatternOps \cup {"add_conversation", "calculate_oscillation_metrics"})
     => \A s \in 1..next_sid : s \notin DOMAIN oscillation_buffer']_vars

(* ===================== claims: SecureEntropySource ==================== *)
\* C11: get_secure_entropy(n_bytes) never raises, for every integer n_bytes;
\* whenever the combined path fails, failed_calls is incremented and the
\* result comes from the OS random draw or from the time-based fallback.
C11_NeverRaises ==
  [][ent_last'.op = "get_secure_entropy"
     => /\ ~ent_last'.raised
        /\ ent_last'.ret >= 0
        /\ ent_last'.path # "combined"
             => /\ failed_calls' = failed_calls + 1
                /\ ent_last'.path \in {"urandom", "time"}]_vars

\* C12: for every k >= 1 the value get_secure_entropy(k) returns lies in
\* [0, 256^k), on the combined path, the OS random fallback and the
\* time-based fallback alike.
C12_InRange ==
  (ent_last.op = "get_secure_entropy" /\ ent_last.n >= 1)
  => /\ ~ent_last.raised
     /\ ent_last.path \in {"combined", "urandom", "time"}
     /\ 0 <= ent_last.ret
     /\ ent_last.ret < Range(ent_last.n)

\* the time-based fallback returned a value of a width of two bytes or more
\* that the mask had to cut down
C12_Witness ==
  /\ ent_last.op = "get_secure_entropy"
  /\ ent_last.path = "time"
  /\ ent_last.n >= 2
  /\ ent_last.ret > 0
  /\ \E h \in HashTriples :
       /\ Xor(h[1], h[3]) >= Range(ent_last.n)
       /\ ent_last.ret = Mask(Xor(h[1], h[3]), ent_last.n * BitsPerByte)

\* a normalized value lies in [0, 1)
InUnit(v) == 0 <= v.num /\ v.num < v.den

\* C13: every value get_normalized_entropy returns and every value stored in
\* the prefill buffer lies in [0, 1), after any sequence of draws and
\* refills; so does every value the fallback of the prefill computes.
C13_NormalizedInUnit ==
  /\ \A i \in 1..Len(entropy_buffer) : InUnit(entropy_buffer[i])
  /\ ent_last.op = "get_normalized_entropy"
       => InUnit([num |-> ent_last.ret, den |-> ent_last.den])
  /\ \A h \in HashTriples : InUnit(PrefillFallback(h[1]))

\* a draw that refilled the buffer returned the largest normalized value
C13_Witness ==
  /\ ent_last.op = "get_normalized_entropy"
  /\ ent_last.n > 0
  /\ ent_last.ret = NORM_MODULUS - 1
  /\ \E i \in 1..Len(entropy_buffer) : entropy_buffer[i].num = NORM_MODULUS - 1

\* C14: the prefill buffer never holds more than buffer_size values, and a
\* draw refills it exactly when it finds fewer than REFILL_THRESHOLD values.
C14_BufferWithinCapacity ==
  [][/\ Len(entropy_buffer') <= buffer_size
     /\ ent_last'.op = "get_normalized_entropy"
          => (ent_last'.n > 0 <=> Len(entropy_buffer) < REFILL_THRESHOLD)]_vars

\* C15: add_multiple raises exactly when a timestamps list of another length
\* than the values is passed, and a call that raised has left the values, the
\* timestamps and the statistics cache exactly as they were.
C15_MismatchRejected ==
  [][buf_last'.op = "add_multiple"
     => /\ buf_last'.raised
             <=> buf_last'.arg[1] # buf_last'.arg[2]
        /\ buf_last'.raised
             => /\ buf_values' = buf_values
                /\ buf_timestamps' = buf_timestamps
                /\ buf_stats_cache' = buf_stats_cache
                /\ buf_cache_timestamp' = buf_cache_timestamp]_vars

\* A rejected add_multiple on a buffer that holds values and a cached result.
C15_Witness ==
  /\ buf_last.op = "add_multiple"
  /\ buf_last.raised
  /\ buf_last.arg[2] > buf_last.arg[1]
  /\ buf_values # <<>>
  /\ buf_stats_cache # <<>>

\* C16: a get_statistics call returns the statistics of the contents the
\* buffer has at the call, with count = size(), also after mutations; and a
\* call that leaves an existing cache entry in place (reuses it) finds it
\* younger than CACHE_SECONDS.
C16_StatisticsCurrent ==
  [][(buf_last'.op = "get_statistics" /\ buf_now' = buf_now)
     => /\ buf_last'.stats = <<Statistics(buf_values')>>
        /\ buf_last'.stats[1].count = Len(buf_values')
        /\ (/\ buf_stats_cache # <<>>
            /\ buf_stats_cache' = buf_stats_cache
            /\ buf_cache_timestamp' = buf_cache_timestamp)
             => buf_now - buf_cache_timestamp
                  < CACHE_SECONDS * TicksPerSecond]_vars

\* Statistics of several different values, held in a cache entry computed
\* at an earlier clock reading.
C16_Witness ==
  /\ buf_last.op = "get_statistics"
  /\ buf_last.stats[1].count >= 2
  /\ buf_last.stats[1].min < buf_last.stats[1].max
  /\ buf_stats_cache = buf_last.stats
  /\ buf_cache_timestamp # NoTime
  /\ buf_cache_timestamp < buf_now

C18_ExactlyTarget ==
  buf_last.op = "resample" => Len(buf_last.ret) = buf_last.arg[1]

\* C18 amended: resample(target_size) returns exactly target_size points when
\* the buffer holds at least one value, and no point when it is empty.
C18_ExactlyTargetNonEmpty ==
  buf_last.op = "resample"
  => Len(buf_last.ret) = (IF is_empty THEN 0 ELSE buf_last.arg[1])

\* Two values resampled to three points, the middle one interpolated.
C18_Witness ==
  /\ buf_last.op = "resample"
  /\ size = 2
  /\ buf_last.arg[1] = 3
  /\ Len(buf_last.ret) = 3
  /\ buf_last.ret[2].num % buf_last.ret[2].den # 0

\* The elapsed clock readings between values i and i + 1.
Elapsed(i) == buf_timestamps[i + 1] - buf_timestamps[i]
Quotient(i) ==
  Ratio((buf_values[i + 1] - buf_values[i]) * TicksPerSecond, Elapsed(i))

\* Two floats num / den are the same number.
SameNumber(a, b) == a.num * b.den = b.num * a.den

\* C19 as stated: get_derivative returns size() - 1 values (none below two
\* values); a pair with elapsed time 0 gives 0.0 and every other pair the
\* value difference over the elapsed seconds.
C19_DerivativeQuotient ==
  buf_last.op = "get_derivative"
  => /\ Len(buf_last.ret) = (IF size < 2 THEN 0 ELSE size - 1)
     /\ \A i \in DOMAIN buf_last.ret :
          SameNumber(buf_last.ret[i],
                     IF Elapsed(i) = 0 THEN Ratio(0, 1) ELSE Quotient(i))

\* C19 amended: a pair with elapsed time 0 or below gives 0.0 and a pair with
\* positive elapsed time the value difference over the elapsed seconds.
C19_DerivativeGuarded ==
  buf_last.op = "get_derivative"
  => /\ Len(buf_last.ret) = (IF size < 2 THEN 0 ELSE size - 1)
     /\ \A i \in DOMAIN buf_last.ret :
          SameNumber(buf_last.ret[i],
                     IF Elapsed(i) <= 0 THEN Ratio(0, 1) ELSE Quotient(i))

\* A derivative over a pair with no elapsed time and different values, and a
\* pair with elapsed time and a non-zero quotient.
C19_Witness ==
  /\ buf_last.op = "get_derivative"
  /\ \E i \in DOMAIN buf_last.ret :
       /\ Elapsed(i) = 0
       /\ buf_values[i + 1] # buf_values[i]
       /\ buf_last.ret[i] = Ratio(0, 1)
  /\ \E i \in DOMAIN buf_last.ret :
       /\ Elapsed(i) > 0
       /\ buf_last.ret[i].num # 0

\* C20: get_recent(count) returns the min(count, size()) most recently added
\* values in insertion order, for every count >= 0.
C20_RecentExact ==
  buf_last.op = "get_recent"
  => LET count == buf_last.arg[1]
         k == IF count < size THEN count ELSE size
     IN buf_last.ret = SubSeq(buf_values, size - k + 1, size)

\* C30: a get_secure_entropy call increments exactly one of successful_calls
\* and failed_calls; total_entropy_bits grows by the bits of n_bytes on a
\* successful call and not at all on a failed one; assess_entropy_quality
\* reports successful / (successful + failed), within [0, 1] and 0.0 when no
\* call was made, and changes neither a counter nor the prefill buffer.
C30_CountersConsistent ==
  [][/\ ent_last'.op = "get_secure_entropy"
          => \/ /\ successful_calls' = successful_calls + 1
                /\ failed_calls' = failed_calls
                /\ total_entropy_bits'
                     = total_entropy_bits + BitsPerByte * ent_last'.n
             \/ /\ successful_calls' = successful_calls
                /\ failed_calls' = failed_calls + 1
                /\ total_entropy_bits' = total_entropy_bits
     /\ ent_last'.op = "assess_entropy_quality"
          => /\ UNCHANGED <<entropy_buffer, successful_calls, failed_calls,
                            total_entropy_bits>>
             /\ ent_last'.ret * (successful_calls + failed_calls)
                  = successful_calls * ent_last'.den
             /\ 0 <= ent_last'.ret /\ ent_last'.ret <= ent_last'.den
             /\ ent_last'.den > 0
     /\ success_rate(0, 0) = [num |-> 0, den |-> 1]]_vars

\* An assessment after calls that succeeded and calls that fell back.
C30_Witness ==
  /\ ent_last.op = "assess_entropy_quality"
  /\ successful_calls > buffer_size
  /\ failed_calls > 0
  /\ total_entropy_bits > successful_calls * BitsPerByte
  /\ ent_last.ret = successful_calls
  /\ ent_last.den = successful_calls + failed_calls

(* ============== claims: SecureEnhancedPinkNoiseGenerator ============== *)
\* C26: right after construction and right after reset() the key is 0, there
\* is one white value per octave and the output history is empty.
C26_ResetState ==
  pn_last.op \in {"__init__", "reset"}
  => /\ pn_key = 0
     /\ Len(pn_white_values) = octaves
     /\ Len(pn_pink_values) = 0

\* A generate call: it returns one more value.
GenerateStep ==
  /\ pn_last'.op = "generate_secure_pink_noise"
  /\ Len(pn_returned') = Len(pn_returned) + 1

\* C27: the first generate call after construction or reset() returns the
\* blend 0.8 * pink + 0.2 * thermal itself; every later call returns
\* 0.7 * (previous output) + 0.3 * (new blend).
C27_FirstUnsmoothed ==
  [][GenerateStep
     => pn_last'.ret[1]
          = IF pn_returned = <<>> THEN pn_last'.blend[1]
            ELSE Smooth(pn_returned[Len(pn_returned)], pn_last'.blend[1])]_vars

\* C28: get_history(n) returns the last min(n, g) values generate returned
\* since construction or the last reset(), in order, g being their number.
C28_HistoryIsReturned ==
  pn_last.op = "get_history"
  => LET g == Len(pn_returned)
         k == IF pn_last.n < g THEN pn_last.n ELSE g
     IN pn_last.ret = SubSeq(pn_returned, g - k + 1, g)

\* C29: the output history never holds more than HISTORY_CAP values, and a
\* generate call on a full history appends its output and evicts the oldest
\* value.
C29_HistoryBounded ==
  [][/\ Len(pn_pink_values) <= HISTORY_CAP
     /\ Len(pn_pink_values') <= HISTORY_CAP
     /\ (GenerateStep /\ Len(pn_pink_values) = HISTORY_CAP)
          => pn_pink_values' = Append(Tail(pn_pink_values), pn_last'.ret[1])]_vars

\* A generate call on a full history: the history is now the outputs alone,
\* the last of them the value just returned.
C29_Witness ==
  /\ pn_last.op = "generate_secure_pink_noise"
  /\ Len(pn_pink_values) = HISTORY_CAP
  /\ Len(pn_returned) >= HISTORY_CAP
  /\ pn_pink_values = SubSeq(pn_returned, Len(pn_returned) - HISTORY_CAP + 1,
                             Len(pn_returned))
  /\ pn_pink_values[HISTORY_CAP] = pn_last.ret[1]
  /\ pn_pink_values[1] # pn_pink_values[HISTORY_CAP]

(* ================ claims: calculate_oscillation_metrics =============== *)
\* The call returned a metrics dict.
Returned == met_result.called /\ ~met_result.raised

\* C21: the result is tagged by the sample count n alone: data_level is
\* insufficient for n < 3, basic for 3 <= n < 5, intermediate for
\* 5 <= n < 10 and full for n >= 10, and total_samples is n.
C21_LevelBySampleCount ==
  Returned
  => LET n == Len(met_values)
         m == met_result.metrics
     IN /\ m["total_samples"].val = n
        /\ m["data_level"].val =
             (IF n < 3 THEN "insufficient"
              ELSE IF n < 5 THEN "basic"
              ELSE IF n < 10 THEN "intermediate"
              ELSE "full")

\* Five samples, one of them NaN, are the first intermediate result.
C21_Witness ==
  /\ Returned
  /\ Len(met_values) = 5
  /\ ListClass(met_values) = "nan"
  /\ met_result.metrics["data_level"].val = "intermediate"
  /\ met_result.metrics["total_samples"].val = 5

TagKeys == {"data_level", "total_samples"}
StatisticKeys ==
  {"mean", "std", "min", "max", "range", "variance", "count",
   "stability", "volatility", "trend"}
AutocorrelationKeys == {"first_order_autocorr", "entropy_randomness_score"}
FullKeys ==
  {"dominant_frequency", "pink_noise_quality",
   "lyapunov_estimate", "entropy", "fractal_dimension"}
EntropyKeys == {"secure_entropy_contribution", "entropy_source", "security_level"}

\* The keys of a result of n samples, the entropy keys apart.
KeysOfLevel(n) ==
  IF n < 3 THEN TagKeys \cup {"error"}
  ELSE IF n < 5 THEN TagKeys \cup StatisticKeys \cup {"warning"}
  ELSE IF n < 10
    THEN TagKeys \cup StatisticKeys \cup AutocorrelationKeys \cup {"warning"}
  ELSE TagKeys \cup StatisticKeys \cup AutocorrelationKeys \cup FullKeys

\* C22: the keys of a result are decided by its data_level: the sample count
\* and error alone when insufficient, the statistics from basic upward, the
\* autocorrelation keys from intermediate upward, the spectral, pink-noise
\* and chaos keys at full only, the warning on basic and intermediate only;
\* and no key has a null value.
C22_KeysByLevel ==
  Returned
  => LET n == Len(met_values)
         m == met_result.metrics
     IN /\ (DOMAIN m) \ EntropyKeys = KeysOfLevel(n)
        /\ n < 3 => DOMAIN m = KeysOfLevel(n)
        /\ \A k \in DOMAIN m : m[k].kind # "null"

\* A full result of ten samples with an entropy source: no warning, every
\* statistic and the full-tier keys.
C22_Witness ==
  /\ Returned
  /\ Len(met_values) = 10
  /\ met_entropy_source.supplied
  /\ "warning" \notin DOMAIN met_result.metrics
  /\ FullKeys \cup StatisticKeys \cup EntropyKeys \subseteq DOMAIN met_result.metrics

\* The result carries the source's success_rate, its tag and "high".
CarriesSource(m, src) ==
  /\ EntropyKeys \subseteq DOMAIN m
  /\ m["secure_entropy_contribution"].val = success_rate(src.successful, src.failed)
  /\ m["entropy_source"].val = "secure_combined"
  /\ m["security_level"].val = "high"

\* C23 as stated: whenever an entropy source is supplied, the result carries
\* its success_rate, its tag and security_level "high", at every data_level,
\* insufficient included.
C23_SourceAlwaysAttached ==
  (Returned /\ met_entropy_source.supplied)
  => CarriesSource(met_result.metrics, met_entropy_source)

\* C23: whenever an entropy source is supplied, the result carries its
\* success_rate, its tag and security_level "high" at every data_level but
\* insufficient; an insufficient result carries none of the three.
C23_SourceAttached ==
  (Returned /\ met_entropy_source.supplied)
  => IF Len(met_values) >= 3
     THEN CarriesSource(met_result.metrics, met_entropy_source)
     ELSE (DOMAIN met_result.metrics) \cap EntropyKeys = {}

\* A basic result of three samples carrying a success_rate of one half.
C23_Witness ==
  /\ Returned
  /\ Len(met_values) = 3
  /\ met_entropy_source = Source(TRUE, 1, 1)
  /\ met_result.metrics["secure_entropy_contribution"].val = [num |-> 1, den |-> 2]
  /\ met_result.metrics["security_level"].val = "high"

\* The reported first-order autocorrelation is r.
IsCorrelation(reported, r) ==
  /\ reported.kind = r.kind
  /\ reported.val = r.val

\* The reported score is 1 - |r|: a score computed from r, 1.0 for r = 0.0,
\* and 0.5 when |r| is one half (r = cov / sqrt(vx * vy)).
IsOneMinusAbs(score, r) ==
  IF score.kind = "score" THEN r.kind = "corr" /\ r.val = score.val
  ELSE IF score.val = "one" THEN r.kind = "float"
  ELSE /\ score.val = "half"
       /\ r.kind = "corr"
       /\ 4 * r.val[1] * r.val[1] = r.val[2] * r.val[3]

\* C24: for 5 <= n < 10 samples the reported first-order autocorrelation is
\* the lag-1 autocorrelation of the samples and the randomness score is
\* 1 - |lag-1 autocorrelation|, not a constant default.
C24_ScoreFromLagOne ==
  (Returned /\ Len(met_values) >= 5 /\ Len(met_values) < 10)
  => LET m == met_result.metrics
         r == Corrcoef(met_values, 1)
     IN /\ IsCorrelation(m["first_order_autocorr"], r)
        /\ IsOneMinusAbs(m["entropy_randomness_score"], r)

\* A float that is neither NaN nor infinite.
IsFinite(x) == x.kind = "float" => x.val \notin {"nan", "inf"}

\* C25: every numeric field of a result is finite, stability is in (0, 1]
\* and pink_noise_quality is in [0, 1], whatever the input list holds.
C25_AllFinite ==
  Returned
  => LET m == met_result.metrics
     IN /\ \A k \in DOMAIN m : IsFinite(m[k])
        /\ "stability" \in DOMAIN m => m["stability"].val \in {"unit", "one"}
        /\ "pink_noise_quality" \in DOMAIN m
             => m["pink_noise_quality"].val \in {"unit0", "unit", "zero", "half", "one"}

(* ================== claims: events, faults and frames ================= *)
\* The values a pattern event with this flag and history is to append.
Chosen(flag, history) ==
  IF flag THEN <<COMBINED>>
  ELSE IF history # <<>> THEN history
  ELSE <<THERMAL>>

\* The values of the active session's buffer after an event appended xs to
\* them and the cap cut the oldest.
Appended(xs) ==
  LET all == Entry(oscillation_buffer, active_session_id).values \o xs
  IN IF Len(all) > max_size
     THEN SubSeq(all, Len(all) - max_size + 1, Len(all)) ELSE all

\* C33: a pattern event handled while a session is active chooses its sample
\* by strict priority: one pink-noise/thermal blend when the pattern's
\* secure_entropy_enabled flag is set, whatever its history; otherwise the
\* pattern's history values when the history is not empty; otherwise one
\* thermal draw.
C33_SamplePriority ==
  [][/\ (last'.op = "add_oscillation_pattern" /\ active_session_id # NoSid)
          => \A flag \in BOOLEAN, history \in Histories :
               AddOscillationPattern(flag, history)
               => oscillation_buffer'[active_session_id].values
                    = Appended(Chosen(flag, history))
     /\ (last'.op = "add_relationship_state" /\ active_session_id # NoSid)
          => \A flag \in BOOLEAN, history \in Histories, tp \in {NoTime, 0},
                saved \in BOOLEAN :
               AddRelationshipState(flag, history, tp, saved)
               => oscillation_buffer'[active_session_id].values
                    = Appended(Chosen(flag, history))]_vars

\* add_oscillation_pattern with the flag set stored its generated history,
\* and the buffer got one blend and none of the history values.
C33_Witness ==
  /\ last.op = "add_oscillation_pattern"
  /\ last.sid # NoSid
  /\ patterns[Len(patterns)].history = Rep(ENHANCED, EnhancedLen)
  /\ LET values == oscillation_buffer[last.sid].values
     IN /\ values[Len(values)] = COMBINED
        /\ Count(values, ENHANCED) = 0

\* C34: in every reachable state the values list and the timestamps list of
\* every session's buffer have the same length.
C34_ListsPairUp ==
  \A sid \in DOMAIN oscillation_buffer :
    Len(oscillation_buffer[sid].values) = Len(oscillation_buffer[sid].timestamps)

\* C38: while no session is active, add_conversation,
\* add_oscillation_pattern and add_relationship_state leave every session's
\* buffer as it was and create no buffer entry.
C38_NoSessionNoBuffer ==
  [][(last'.op \in PatternOps \cup {"add_conversation"} /\ active_session_id = NoSid)
     => oscillation_buffer' = oscillation_buffer]_vars

\* An event arrived while no session was active and a session had a buffer.
C38_Witness ==
  /\ last.op \in PatternOps \cup {"add_conversation"}
  /\ last.sid = NoSid
  /\ active_session_id = NoSid
  /\ \E sid \in DOMAIN oscillation_buffer : oscillation_buffer[sid].values # <<>>

\* The calls that update the session they act on.
UpdateOps == {"resume_session", "add_conversation", "add_relationship_state"}

\* C39: when the storage write of an update_session fails (the session file
\* is as before), the cache is not updated: for a session whose cached data
\* equalled its file before the call, load_session still returns what the
\* file holds.
C39_CacheFollowsStorage ==
  [][\A sid \in DOMAIN storage :
       (/\ last'.op \in UpdateOps /\ last'.sid = sid
        /\ storage' = storage
        /\ sid \in DOMAIN session_cache => session_cache[sid] = storage[sid])
       => session_cache'[sid] = storage'[sid]]_vars

\* What load_session returns as the interaction_count of a session.
InteractionCount(cache, files, sid) ==
  IF sid \in DOMAIN cache THEN cache[sid].interaction_count
  ELSE files[sid].interaction_count

\* C31: with an active session, add_conversation with a supplied
\* oscillation_value v appends exactly one value, equal to v, and exactly one
\* timestamp to that session's buffer and raises the session's
\* interaction_count by exactly 1.
C31_ConversationCounted ==
  [][(last'.op = "add_conversation" /\ active_session_id # NoSid)
     => \A v \in Vals, saved \in BOOLEAN :
          AddConversation(v, saved)
          => LET sid == active_session_id
                 b == Entry(oscillation_buffer, sid)
             IN /\ oscillation_buffer'[sid].values = Append(b.values, v)
                /\ Len(oscillation_buffer'[sid].timestamps) = Len(b.timestamps) + 1
                /\ sid \in DOMAIN session_cache \cup DOMAIN storage
                /\ sid \in DOMAIN session_cache'
                /\ InteractionCount(session_cache', storage', sid)
                     = InteractionCount(session_cache, storage, sid) + 1]_vars

\* C37: resume_session with a session id the session manager cannot load
\* returns False and changes nothing: the active session, the active
\* character, every buffer, the session files and the cache are as before.
C37_FailedResumeChangesNothing ==
  [][(last'.op = "resume_session"
        /\ last'.sid \notin DOMAIN session_cache \cup DOMAIN storage)
     => /\ last'.ret = "False"
        /\ UNCHANGED <<active_session_id, active_character_id, oscillation_buffer,
                       storage, session_cache, active_sessions, key,
                       patterns, conversations>>]_vars

\* A resume of an unknown id failed while another session was active and
\* had its buffer.
C37_Witness ==
  /\ last.op = "resume_session"
  /\ last.ret = "False"
  /\ active_session_id # NoSid
  /\ active_session_id # last.sid
  /\ active_character_id # None
  /\ active_session_id \in DOMAIN oscillation_buffer

\* C36: calculate_oscillation_metrics returns the error "No active session"
\* when no session id is given and none is active, and the error "No
\* oscillation data" for a session id that has no buffer, in both cases
\* creating no buffer and drawing no entropy.
C36_ErrorsWithoutEffect ==
  [][(last'.op = "calculate_oscillation_metrics"
        /\ last'.sid \notin DOMAIN oscillation_buffer)
     => /\ last'.ret = IF last'.sid = NoSid THEN "No active session"
                       ELSE "No oscillation data"
        /\ oscillation_buffer' = oscillation_buffer
        /\ key' = key]_vars

(* ================ claims: restore of a damaged store ================== *)
\* A conversation record the restore can parse as a whole.
ParsableConversation(r) ==
  r.oscillation_value # GARBAGE /\ r.timestamp # BadTimestamp

\* A pattern record the restore can parse as a whole.
ParsablePattern(r) ==
  /\ \A i \in 1..Len(r.history) : r.history[i] # GARBAGE
  /\ r.history # <<>> => r.timestamp # BadTimestamp

\* The buffer a restore builds from the records it can parse, the others
\* left out as a whole.
RestoredFromParsable(b, sid, t) ==
  SortBuffer(Pad(
    RestoreConversations(
      RestorePatterns(b, SelectSeq(Limit(Where(patterns, sid), RESTORE_LIMIT), ParsablePattern)),
      SelectSeq(Limit(Where(conversations, sid), RESTORE_LIMIT), ParsableConversation)),
    t))

\* C35: during the restore a stored record that cannot be parsed is skipped
\* as a whole: it adds neither a value nor a timestamp to the buffer, and the
\* records after it are still restored, so the restored buffer is the one
\* built from the parsable records alone.
C35_UnparsableSkipped ==
  [][(/\ last'.op = "resume_session"
      /\ last'.ret = "True"
      /\ last'.fault = "none"
      /\ last'.sid \notin DOMAIN oscillation_buffer)
       => oscillation_buffer'[last'.sid] = RestoredFromParsable(EmptyEntry, last'.sid, now')]_vars

(* ================= claims: the key of the pink noise ================== *)
\* Bit i of old XOR new, by the bits of the two keys.
BitToggled(old, new, i) == ((old \div (2 ^ i)) % 2) # ((new \div (2 ^ i)) % 2)

\* C32: the key is always in 0..2^octaves - 1; a generate call advances it
\* by one modulo 2^octaves, redraws octave i exactly when bit i of
\* (old key XOR new key) is set, hence octave 0 on every call and every
\* octave on the wrap, and leaves the value of every other octave as it was.
C32_KeyAndRedraws ==
  [][/\ pn_key \in 0..(2 ^ octaves - 1)
     /\ pn_key' \in 0..(2 ^ octaves - 1)
     /\ GenerateStep
          => /\ pn_key' = (pn_key + 1) % (2 ^ octaves)
             /\ \A i \in 0..(octaves - 1) :
                  /\ (i + 1 \in pn_last'.redrawn) <=> BitToggled(pn_key, pn_key', i)
                  /\ (i + 1 \notin pn_last'.redrawn)
                       => pn_white_values'[i + 1] = pn_white_values[i + 1]
             /\ 1 \in pn_last'.redrawn
             /\ pn_key' = 0 => pn_last'.redrawn = 1..octaves]_vars

\* A generate call wrapped the key from 2^octaves - 1 to 0 and drew every
\* octave anew.
C32_Witness ==
  /\ pn_last.op = "generate_secure_pink_noise"
  /\ pn_key = 0
  /\ Len(pn_returned) = 2 ^ octaves
  /\ pn_last.redrawn = 1..octaves

(* ==================== claims: the tool invocations ==================== *)
\* The handler's positions between entering its body and returning.
InHandler == {"handler", "read", "written"}

\* The number of writes of self.db so far.
Writes == Cardinality({i \in 1..Len(tool_log) : tool_log[i].ev = "write"})

\* C40: tool invocations through handle_tool are serialized: no invocation
\* is suspended between its first read and its last write of the shared
\* state, so two invocations are never inside their handlers at once, every
\* write directly follows the read of the same invocation, and no update of
\* the shared state is lost.
C40_Serialized ==
  /\ \A t \in Tasks :
       tool_pc[t] \in InHandler \cup {"call_tool", "handle_tool"} => tool_running = t
  /\ \A t \in Tasks, u \in Tasks :
       (tool_pc[t] \in InHandler /\ tool_pc[u] \in InHandler) => t = u
  /\ \A i \in 1..Len(tool_log) :
       tool_log[i].ev = "write"
         => (i > 1 /\ tool_log[i - 1] = ToolEvent(tool_log[i].task, "read"))
  /\ tool_shared = Writes

\* Two invocations are in flight, one of them inside its handler after its
\* read, and the other has written before it.
C40_Witness ==
  \E t \in Tasks, u \in Tasks :
    /\ t # u
    /\ tool_pc[t] = "read"
    /\ tool_name[t] \in WritingTools
    /\ tool_pc[u] = "returned"
    /\ tool_name[u] \in WritingTools
    /\ tool_shared = 1

====
